---- MODULE Spec2Model ----
(***************************************************************************)
(* A model of backend/main.py: the credential cache and the retrying       *)
(* WatsonX client (get_access_token, make_watsonx_request), the chunking   *)
(* loops of the long-audio transcribers, the transcript merger             *)
(* (clean_combined_transcription) and the /analyze pipeline.               *)
(***************************************************************************)
EXTENDS Integers, Sequences, FiniteSets, TLC

(***************************************************************************)
(* Bounds of the model.                                                    *)
(***************************************************************************)
MaxRetriesBound == 2     \* max_retries is drawn from 0..MaxRetriesBound
MaxCalls == 2            \* calls of make_watsonx_request started per caller
MaxTicks == 1            \* how often the clock advances between statements
TickStep == 150          \* seconds the clock advances in one Tick
MaxWords == 2            \* words of a generated chunk transcript
MaxTranscripts == 3      \* transcripts handed to clean_combined_transcription
MaxSeconds == 640        \* whole seconds of audio (the lengths add 0, 1 or 15999 samples)
MaxDecoded == 2          \* chunks of one request that are decoded to words

(***************************************************************************)
(* Program constants.                                                      *)
(***************************************************************************)
NoToken == 0             \* access_token_cache["token"] = None
ExpiryBuffer == 300      \* the 5-minute buffer of line 112
DefaultExpiresIn == 3600 \* token_data.get("expires_in", 3600)
SleepSeconds == 1        \* time.sleep(1)
StatusOK == 200
StatusUnauthorized == 401
MaxOverlapWords == 10    \* min(10, ...) of line 439
SamplingRate == 16000    \* preprocess_audio returns audio at 16000 Hz
ShortLimitSeconds == 30  \* duration > 30, line 248
LongLimitSeconds == 600  \* duration > 600, line 246
LongChunkSeconds == 30   \* chunk_length of transcribe_long_audio
LongOverlapSeconds == 2
VeryLongChunkSeconds == 20
VeryLongOverlapSeconds == 1
MaxUploadBytes == 100 * 1024 * 1024   \* max_size of line 221
DefaultMaxRetries == 2   \* max_retries: int = 2, line 123

Callers == {1, 2}
\* expires_in as reported by the IAM service: one that makes the token stale
\* after one Tick, and 3600, which also stands for an absent field
ExpiresInValues == {ExpiryBuffer + TickStep, DefaultExpiresIn}
\* lifetimes on both sides of the buffer, and on both sides of the buffer plus
\* one step of the clock
BoundaryLifetimes ==
    {ExpiryBuffer - 1, ExpiryBuffer, ExpiryBuffer + 1,
     ExpiryBuffer + TickStep, ExpiryBuffer + TickStep + 1, DefaultExpiresIn}
\* status codes the inference endpoint answers with
StatusCodes == {StatusOK, StatusUnauthorized, 403, 500}
\* response bodies: the empty JSON object, one whose choices[0].message.content
\* is a category and a sentence, one whose content is white space
Bodies == {"{}", "content", "blank"}

VARIABLES
    \* ---- process-wide state --------------------------------------------
    access_token_cache,  \* [token, expiry]: the global dict of lines 44-47
    now,                 \* time.time()
    ticks,               \* number of Tick steps taken
    issued,              \* number of tokens the IAM service has handed out
    grant,               \* history: when the last token was issued, and its expires_in
    expiry_writer,       \* history: the token whose acquisition wrote the cached expiry (0: cleared)
    callers,             \* the callers that run (one: handlers run one after another)
    \* ---- one call of make_watsonx_request per caller --------------------
    pc,                  \* position of the caller in the code
    max_retries,         \* parameter max_retries
    attempt,             \* loop variable of line 127
    force_refresh,       \* line 129
    current_time,        \* line 82
    at_entry,            \* history: the cache and the exchange count when get_access_token was entered
    seen,                \* [token, expiry] read by the validity check of lines 86-87
    fetched,             \* [token, expires_in] of the exchange response, lines 105-107
    access_token,        \* line 130
    gat_result,          \* how the last get_access_token of the call ended
    response,            \* the inference response: its status, and its body where the code reads it
    result,              \* how the call ended
    events,              \* history: what the call has done so far
    calls,               \* number of calls the caller has started
    \* ---- clean_combined_transcription ----------------------------------
    transcriptions,      \* the argument: a sequence of strings
    combined,            \* line 432
    idx,                 \* the loop variable i of line 434 (1-based here)
    rpc,                 \* position in clean_combined_transcription
    returned,            \* the string it returns
    \* ---- tier choice and the chunking loops -----------------------------
    audio_len,           \* len(audio_array)
    tier,                \* which transcriber transcribe_audio_file calls
    chunk_samples,       \* lines 299 and 361
    overlap_samples,     \* lines 301 and 363
    start,               \* lines 303 and 365
    chunks,              \* the list chunks: [first, last) of the audio and len(chunk)
    spc,                 \* position in the chunking code
    \* ---- transcribe_audio_file and the three transcribers --------------
    whisper_model_cache, \* TRUE when processor and model are loaded (lines 50-53)
    content_size,        \* len(content) of the upload
    temp_file,           \* TRUE while the temporary .mp3 file exists
    tpc,                 \* position in transcribe_audio_file
    chunk_i,             \* the loop variable i of lines 319 and 383 (1-based here)
    all_transcriptions,  \* lines 318 and 382
    decoded,             \* history: [index, raw] of the chunks decoded to words
    routine_result,      \* what the transcriber returned or raised
    t_result,            \* what transcribe_audio_file returned or raised
    \* ---- full_analysis_endpoint ----------------------------------------
    env,                 \* which of API_KEY, PROJECT_ID, MODEL_ID are set
    apc,                 \* position in full_analysis_endpoint
    transcription,       \* line 724
    intent,              \* intent_result.intent, line 727
    intent_category,     \* line 657
    analyze_result,      \* what the endpoint returned or raised
    stages,              \* history: the stages started (for the remote ones: the remote call)
    outcomes             \* history: [stage, ok] of the stages that ended

clientVars == <<access_token_cache, now, ticks, issued, grant, expiry_writer, callers, pc,
                max_retries, attempt, force_refresh, current_time, at_entry, seen,
                fetched, access_token, gat_result, response, result, events, calls>>

reconVars == <<transcriptions, combined, idx, rpc, returned>>

segVars == <<audio_len, tier, chunk_samples, overlap_samples, start, chunks, spc>>

transVars == <<whisper_model_cache, content_size, temp_file, tpc, chunk_i,
               all_transcriptions, decoded, routine_result, t_result>>

anVars == <<env, apc, transcription, intent, intent_category, analyze_result, stages,
            outcomes>>

vars == <<clientVars, reconVars, segVars, transVars, anVars>>

----------------------------------------------------------------------------
(***************************************************************************)
(* Values.                                                                 *)
(***************************************************************************)
ClearedCache == [token |-> NoToken, expiry |-> 0]
NothingSeen == [token |-> NoToken, expiry |-> 0, writer |-> 0, both |-> FALSE]
NothingFetched == [token |-> NoToken, expires_in |-> 0]
NoEntry == [token |-> NoToken, expiry |-> 0, issued |-> 0]
NoGrant == [at |-> 0, expires_in |-> 0]
NoResponse == [status |-> 0, body |-> ""]
NoResult == [kind |-> "running", status |-> 0, body |-> ""]
Returned(body) == [kind |-> "returned", status |-> StatusOK, body |-> body]
ReturnedNone == [kind |-> "returned_none", status |-> 0, body |-> ""]
\* HTTPException(500, detail): "Error getting access token: ..." raised by
\* get_access_token, "Failed to obtain access token" raised by make_watsonx_request
CredentialAcquisitionError(detail) ==
    [kind |-> "CredentialAcquisitionError", status |-> 500, body |-> detail]
\* HTTPException(status_code=response.status_code, detail="WatsonX API Error: " + response.text)
RemoteAPIError(status, body) == [kind |-> "RemoteAPIError", status |-> status, body |-> body]
\* HTTPException(500, "Failed to connect to WatsonX API after n attempts")
RemoteUnavailableError == [kind |-> "RemoteUnavailableError", status |-> 500, body |-> ""]

\* results of the transcription functions: a transcript, or an HTTPException
\* whose detail lists the messages from the outermost wrapper inwards
Pending == [kind |-> "pending", status |-> 0, detail |-> <<>>, text |-> <<>>]
Transcript(text) == [kind |-> "transcript", status |-> 0, detail |-> <<>>, text |-> text]
HTTPException(status, detail) ==
    [kind |-> "HTTPException", status |-> status, detail |-> detail, text |-> <<>>]

\* lines 261-263: an exception e that is not an HTTPException leaves
\* transcribe_audio_file as a 500 whose detail carries str(e)
CriticalError(e) == HTTPException(500, <<"Critical error in transcription", e>>)

\* FullAnalysisResponse(...), lines 735-741
FullAnalysis(resolution) ==
    [kind |-> "analysis", status |-> StatusOK, detail |-> <<>>, text |-> resolution]

Event(type, forced, status) == [type |-> type, forced |-> forced, status |-> status]

Log(p, type, forced, status) ==
    [events EXCEPT ![p] = Append(@, Event(type, forced, status))]

----------------------------------------------------------------------------
(***************************************************************************)
(* The clock.                                                              *)
(***************************************************************************)
\* Time passes between requests: the clock is read at line 82 only, and only
\* the fetch of attempt 0 compares it with the cached expiry, so it advances
\* right before that fetch.  Within a call it advances by the sleep of line 174.
Tick ==
    /\ ticks < MaxTicks
    /\ \E p \in callers : pc[p] = "loop" /\ attempt[p] = 0
    /\ now' = now + TickStep
    /\ ticks' = ticks + 1
    /\ UNCHANGED <<access_token_cache, issued, grant, expiry_writer, callers, pc, max_retries,
                   attempt, force_refresh, current_time, at_entry, seen, fetched,
                   access_token, gat_result, response, result, events, calls>>

(***************************************************************************)
(* make_watsonx_request, lines 123-176, and get_access_token, lines 77-121,*)
(* one action per statement that reads or writes shared state or talks to  *)
(* the network.                                                            *)
(***************************************************************************)
Finish(p, r) ==
    /\ pc' = [pc EXCEPT ![p] = "done"]
    /\ result' = [result EXCEPT ![p] = r]

\* One caller makes up to MaxCalls calls, with any max_retries up to the bound
\* and every answer of the two services.  Two interleaved callers make one call
\* each, with one retry, and the services answer from the smaller sets: that
\* specification is there to exhibit interleavings, not to cover the answers.
Sequential == Cardinality(callers) = 1
CallBudget == IF Sequential THEN MaxCalls ELSE 1
RetryChoices == IF Sequential THEN 0..MaxRetriesBound ELSE {1}
ExpiresInChoices == IF Sequential THEN ExpiresInValues ELSE {DefaultExpiresIn}
StatusChoices == IF Sequential THEN StatusCodes ELSE {StatusOK, StatusUnauthorized}
BodyChoices == IF Sequential THEN Bodies ELSE {"content"}

\* caller p enters make_watsonx_request(payload, api_key, max_retries = mr)
EnterRequest(p, mr) ==
    /\ pc[p] \in {"idle", "done"}
    /\ max_retries' = [max_retries EXCEPT ![p] = mr]
    /\ calls' = [calls EXCEPT ![p] = @ + 1]
    /\ attempt' = [attempt EXCEPT ![p] = 0]
    /\ pc' = [pc EXCEPT ![p] = "loop"]
    /\ result' = [result EXCEPT ![p] = NoResult]
    /\ events' = [events EXCEPT ![p] = <<>>]
    /\ seen' = [seen EXCEPT ![p] = NothingSeen]
    /\ access_token' = [access_token EXCEPT ![p] = NoToken]
    /\ gat_result' = [gat_result EXCEPT ![p] = "pending"]
    /\ response' = [response EXCEPT ![p] = NoResponse]
    /\ force_refresh' = [force_refresh EXCEPT ![p] = FALSE]
    /\ current_time' = [current_time EXCEPT ![p] = 0]
    /\ at_entry' = [at_entry EXCEPT ![p] = NoEntry]
    /\ fetched' = [fetched EXCEPT ![p] = NothingFetched]
    /\ UNCHANGED <<access_token_cache, now, ticks, issued, grant, expiry_writer, callers>>

\* a call made for its own sake, with any max_retries of the bounded set
StartCall(p) ==
    /\ calls[p] < CallBudget
    /\ \E mr \in RetryChoices : EnterRequest(p, mr)

\* a call that retries at most once
StartCallFewRetries(p) ==
    /\ calls[p] < CallBudget
    /\ \E mr \in {0, 1} : EnterRequest(p, mr)

\* a variant of line 129 that forces the refresh one attempt late
ForceRefreshLate(n) == n > 1

\* line 129: force_refresh = attempt > 0
ForceRefresh(n) == n > 0

\* lines 127-130 and 82: the loop head, force_refresh, and current_time = time.time();
\* line 176 when the range is exhausted
LoopHead(p) ==
    /\ pc[p] = "loop"
    /\ IF attempt[p] <= max_retries[p]
       THEN /\ force_refresh' = [force_refresh EXCEPT ![p] = ForceRefresh(attempt[p])]
            /\ current_time' = [current_time EXCEPT ![p] = now]
            /\ at_entry' = [at_entry EXCEPT ![p] =
                              [token |-> access_token_cache.token,
                               expiry |-> access_token_cache.expiry,
                               issued |-> issued]]
            /\ pc' = [pc EXCEPT ![p] = "check_token"]
            /\ UNCHANGED result
       ELSE /\ Finish(p, ReturnedNone)
            /\ UNCHANGED <<force_refresh, current_time, at_entry>>
    /\ UNCHANGED <<access_token_cache, now, ticks, issued, grant, expiry_writer, callers,
                   max_retries, attempt, seen, fetched, access_token, gat_result,
                   response, events, calls>>

\* lines 85-86: not force_refresh and access_token_cache["token"]
CheckToken(p) ==
    /\ pc[p] = "check_token"
    /\ IF force_refresh[p]
       THEN /\ pc' = [pc EXCEPT ![p] = "exchange"]
            /\ UNCHANGED seen
       ELSE /\ seen' = [seen EXCEPT ![p] = [NothingSeen EXCEPT !.token = access_token_cache.token]]
            /\ pc' = [pc EXCEPT ![p] =
                        IF access_token_cache.token # NoToken THEN "check_expiry"
                                                              ELSE "exchange"]
    /\ UNCHANGED <<access_token_cache, now, ticks, issued, grant, expiry_writer, callers,
                   max_retries, attempt, force_refresh, current_time, at_entry, fetched,
                   access_token, gat_result, response, result, events, calls>>

\* a variant of line 87 with the comparison turned round
CacheIsFreshReversed(t, expiry) == t > expiry

\* line 87: current_time < access_token_cache["expiry"]
CacheIsFresh(t, expiry) == t < expiry

CheckExpiry(p) ==
    /\ pc[p] = "check_expiry"
    /\ seen' = [seen EXCEPT ![p].expiry = access_token_cache.expiry,
                          ![p].writer = expiry_writer,
                          ![p].both = TRUE]
    /\ pc' = [pc EXCEPT ![p] =
                IF CacheIsFresh(current_time[p], access_token_cache.expiry)
                THEN "use_cached" ELSE "exchange"]
    /\ UNCHANGED <<access_token_cache, now, ticks, issued, grant, expiry_writer, callers,
                   max_retries, attempt, force_refresh, current_time, at_entry, fetched,
                   access_token, gat_result, response, result, events, calls>>

\* lines 88-89 and 130-133: return access_token_cache["token"]; a falsy token
\* makes make_watsonx_request raise "Failed to obtain access token"
UseCached(p) ==
    /\ pc[p] = "use_cached"
    /\ access_token' = [access_token EXCEPT ![p] = access_token_cache.token]
    /\ events' = Log(p, "cached", FALSE, 0)
    /\ IF access_token_cache.token # NoToken
       THEN /\ gat_result' = [gat_result EXCEPT ![p] = "token"]
            /\ pc' = [pc EXCEPT ![p] = "post"]
            /\ UNCHANGED result
       ELSE /\ gat_result' = [gat_result EXCEPT ![p] = "none"]
            /\ Finish(p, CredentialAcquisitionError("Failed to obtain access token"))
    /\ UNCHANGED <<access_token_cache, now, ticks, issued, grant, expiry_writer, callers,
                   max_retries, attempt, force_refresh, current_time, at_entry, seen,
                   fetched, response, calls>>

\* line 112: current_time + expires_in - 300
ExpiryOfNoBuffer(t, expires_in) == t + expires_in

ExpiryOf(t, expires_in) == t + expires_in - ExpiryBuffer

\* lines 102-107, the exchange answers with a token: requests.post succeeds,
\* raise_for_status passes, access_token is truthy, expires_in is one of lifetimes
ExchangeGrants(p, lifetimes) ==
    /\ pc[p] = "exchange"
    /\ \E e \in lifetimes :
          /\ fetched' = [fetched EXCEPT ![p] = [token |-> issued + 1, expires_in |-> e]]
          /\ grant' = [at |-> now, expires_in |-> e]
    /\ issued' = issued + 1
    /\ events' = Log(p, "exchange", force_refresh[p], StatusOK)
    /\ pc' = [pc EXCEPT ![p] = "write_token"]
    /\ UNCHANGED <<access_token_cache, now, ticks, expiry_writer, callers, max_retries, attempt,
                   force_refresh, current_time, at_entry, seen, access_token, gat_result,
                   response, result, calls>>

ExchangeOK(p) == ExchangeGrants(p, ExpiresInChoices)

\* lines 102-103 and 119-121: requests.post raises (network error) or
\* raise_for_status raises (non-2xx); get_access_token raises HTTPException(500),
\* which the except clause of line 166 does not catch
\* a variant of lines 119-121 that lets the error of the exchange reach the
\* handler of lines 166-174
ExchangeRaisesRetried(p) ==
    /\ pc[p] = "exchange"
    /\ \E cause \in {"exchange_network_error", "exchange_http_error"} :
          events' = Log(p, cause, force_refresh[p], 0)
    /\ gat_result' = [gat_result EXCEPT ![p] = "raised"]
    /\ pc' = [pc EXCEPT ![p] = "request_exception"]
    /\ UNCHANGED <<access_token_cache, now, ticks, issued, grant, expiry_writer, callers,
                   max_retries, attempt, force_refresh, current_time, at_entry, seen,
                   fetched, access_token, response, result, calls>>

ExchangeRaises(p) ==
    /\ pc[p] = "exchange"
    /\ \E cause \in {"exchange_network_error", "exchange_http_error"} :
          events' = Log(p, cause, force_refresh[p], 0)
    /\ gat_result' = [gat_result EXCEPT ![p] = "raised"]
    /\ Finish(p, CredentialAcquisitionError("Error getting access token"))
    /\ UNCHANGED <<access_token_cache, now, ticks, issued, grant, expiry_writer, callers,
                   max_retries, attempt, force_refresh, current_time, at_entry, seen,
                   fetched, access_token, response, calls>>

\* a variant of lines 109-117 that stores the absent token before returning None
ExchangeNoTokenStored(p) ==
    /\ pc[p] = "exchange"
    /\ events' = Log(p, "exchange_no_token", force_refresh[p], StatusOK)
    /\ gat_result' = [gat_result EXCEPT ![p] = "none"]
    /\ access_token' = [access_token EXCEPT ![p] = NoToken]
    /\ access_token_cache' = [access_token_cache EXCEPT !.token = NoToken]
    /\ Finish(p, CredentialAcquisitionError("Failed to obtain access token"))
    /\ UNCHANGED <<now, ticks, issued, grant, expiry_writer, callers,
                   max_retries, attempt, force_refresh, current_time, at_entry, seen,
                   fetched, response, calls>>

\* lines 105-106, 115-117 and 132-133: the response carries no access_token;
\* get_access_token returns None and make_watsonx_request raises
ExchangeNoToken(p) ==
    /\ pc[p] = "exchange"
    /\ events' = Log(p, "exchange_no_token", force_refresh[p], StatusOK)
    /\ gat_result' = [gat_result EXCEPT ![p] = "none"]
    /\ access_token' = [access_token EXCEPT ![p] = NoToken]
    /\ Finish(p, CredentialAcquisitionError("Failed to obtain access token"))
    /\ UNCHANGED <<access_token_cache, now, ticks, issued, grant, expiry_writer, callers,
                   max_retries, attempt, force_refresh, current_time, at_entry, seen,
                   fetched, response, calls>>

\* line 111: access_token_cache["token"] = access_token
WriteToken(p) ==
    /\ pc[p] = "write_token"
    /\ access_token_cache' = [access_token_cache EXCEPT !.token = fetched[p].token]
    /\ pc' = [pc EXCEPT ![p] = "write_expiry"]
    /\ UNCHANGED <<now, ticks, issued, grant, expiry_writer, callers, max_retries, attempt,
                   force_refresh, current_time, at_entry, seen, fetched, access_token,
                   gat_result, response, result, events, calls>>

\* lines 112-114: access_token_cache["expiry"] = ...; return access_token
WriteExpiry(p) ==
    /\ pc[p] = "write_expiry"
    /\ access_token_cache' =
          [access_token_cache EXCEPT
             !.expiry = ExpiryOf(current_time[p], fetched[p].expires_in)]
    /\ expiry_writer' = fetched[p].token
    /\ access_token' = [access_token EXCEPT ![p] = fetched[p].token]
    /\ gat_result' = [gat_result EXCEPT ![p] = "token"]
    /\ pc' = [pc EXCEPT ![p] = "post"]
    /\ UNCHANGED <<now, ticks, issued, grant, callers, max_retries, attempt,
                   force_refresh, current_time, at_entry, seen, fetched, response, result,
                   events, calls>>

\* a variant of line 153 that retries on every status but 200
RetryOnAnyError(status, n, mr) == status # StatusOK /\ n < mr

RetryOn401Always(status, n, mr) == status = StatusUnauthorized

\* line 153: response.status_code == 401 and attempt < max_retries
RetryOn401(status, n, mr) == status = StatusUnauthorized /\ n < mr

\* lines 143-164: the inference POST answers with a status and a body
PostResponds(p) ==
    /\ pc[p] = "post"
    /\ \E s \in StatusChoices, b \in BodyChoices :
          /\ events' = Log(p, "post", FALSE, s)
          /\ IF s = StatusOK
             THEN \* line 152: return response.json()
                  /\ response' = [response EXCEPT ![p] = [status |-> s, body |-> b]]
                  /\ Finish(p, Returned(b))
             ELSE IF RetryOn401(s, attempt[p], max_retries[p])
             THEN \* lines 153-157: the body of this response is never read
                  /\ response' = [response EXCEPT ![p] = [status |-> s, body |-> ""]]
                  /\ pc' = [pc EXCEPT ![p] = "clear_token"]
                  /\ UNCHANGED result
             ELSE \* lines 158-164: raise HTTPException(status_code, response.text)
                  /\ response' = [response EXCEPT ![p] = [status |-> s, body |-> b]]
                  /\ Finish(p, RemoteAPIError(s, b))
    /\ UNCHANGED <<access_token_cache, now, ticks, issued, grant, expiry_writer, callers,
                   max_retries, attempt, force_refresh, current_time, at_entry, seen,
                   fetched, access_token, gat_result, calls>>

\* lines 143-149 and 166-167: requests.post raises a RequestException
PostRaises(p) ==
    /\ pc[p] = "post"
    /\ response' = [response EXCEPT ![p] = NoResponse]
    /\ events' = Log(p, "post_exception", FALSE, 0)
    /\ pc' = [pc EXCEPT ![p] = "request_exception"]
    /\ UNCHANGED <<access_token_cache, now, ticks, issued, grant, expiry_writer, callers,
                   max_retries, attempt, force_refresh, current_time, at_entry, seen,
                   fetched, access_token, gat_result, result, calls>>

\* line 155: access_token_cache["token"] = None
ClearToken(p) ==
    /\ pc[p] = "clear_token"
    /\ access_token_cache' = [access_token_cache EXCEPT !.token = NoToken]
    /\ pc' = [pc EXCEPT ![p] = "clear_expiry"]
    /\ UNCHANGED <<now, ticks, issued, grant, expiry_writer, callers, max_retries, attempt,
                   force_refresh, current_time, at_entry, seen, fetched, access_token,
                   gat_result, response, result, events, calls>>

\* lines 156-157: access_token_cache["expiry"] = 0; continue
ClearExpiry(p) ==
    /\ pc[p] = "clear_expiry"
    /\ access_token_cache' = [access_token_cache EXCEPT !.expiry = 0]
    /\ expiry_writer' = 0
    /\ events' = Log(p, "clear", FALSE, 0)
    /\ attempt' = [attempt EXCEPT ![p] = @ + 1]
    /\ pc' = [pc EXCEPT ![p] = "loop"]
    /\ UNCHANGED <<now, ticks, issued, grant, callers, max_retries,
                   force_refresh, current_time, at_entry, seen, fetched, access_token,
                   gat_result, response, result, calls>>

\* a variant of line 168 that gives up one attempt early
RetriesExhaustedEarly(n, mr) == n + 1 >= mr

RetriesExhaustedLate(n, mr) == n = mr + 1

\* line 168: attempt == max_retries
RetriesExhausted(n, mr) == n = mr

\* lines 166-174: the handler of RequestException: give up, or sleep and go on
\* a variant of lines 172-174 that clears the cache before sleeping
HandleRequestExceptionClearing(p) ==
    /\ pc[p] = "request_exception"
    /\ IF RetriesExhausted(attempt[p], max_retries[p])
       THEN /\ Finish(p, RemoteUnavailableError)
            /\ UNCHANGED <<now, attempt, events, access_token_cache, expiry_writer>>
       ELSE /\ now' = now + SleepSeconds
            /\ access_token_cache' = ClearedCache
            /\ expiry_writer' = 0
            /\ events' = Log(p, "sleep", FALSE, 0)
            /\ attempt' = [attempt EXCEPT ![p] = @ + 1]
            /\ pc' = [pc EXCEPT ![p] = "loop"]
            /\ UNCHANGED result
    /\ UNCHANGED <<ticks, issued, grant, callers,
                   max_retries, force_refresh, current_time, at_entry, seen, fetched,
                   access_token, gat_result, response, calls>>

HandleRequestException(p) ==
    /\ pc[p] = "request_exception"
    /\ IF RetriesExhausted(attempt[p], max_retries[p])
       THEN /\ Finish(p, RemoteUnavailableError)
            /\ UNCHANGED <<now, attempt, events>>
       ELSE /\ now' = now + SleepSeconds
            /\ events' = Log(p, "sleep", FALSE, 0)
            /\ attempt' = [attempt EXCEPT ![p] = @ + 1]
            /\ pc' = [pc EXCEPT ![p] = "loop"]
            /\ UNCHANGED result
    /\ UNCHANGED <<access_token_cache, ticks, issued, grant, expiry_writer, callers,
                   max_retries, force_refresh, current_time, at_entry, seen, fetched,
                   access_token, gat_result, response, calls>>

ClientInit(running) ==
    /\ access_token_cache = ClearedCache
    /\ now = 0
    /\ ticks = 0
    /\ issued = 0
    /\ grant = NoGrant
    /\ expiry_writer = 0
    /\ callers = running
    /\ pc = [p \in Callers |-> "idle"]
    /\ max_retries = [p \in Callers |-> 0]
    /\ attempt = [p \in Callers |-> 0]
    /\ force_refresh = [p \in Callers |-> FALSE]
    /\ current_time = [p \in Callers |-> 0]
    /\ at_entry = [p \in Callers |-> NoEntry]
    /\ seen = [p \in Callers |-> NothingSeen]
    /\ fetched = [p \in Callers |-> NothingFetched]
    /\ access_token = [p \in Callers |-> NoToken]
    /\ gat_result = [p \in Callers |-> "pending"]
    /\ response = [p \in Callers |-> NoResponse]
    /\ result = [p \in Callers |-> NoResult]
    /\ events = [p \in Callers |-> <<>>]
    /\ calls = [p \in Callers |-> 0]

----------------------------------------------------------------------------
(***************************************************************************)
(* Strings.  A string is a sequence of characters; a character is the      *)
(* space or a letter, and a word of the test sentences ("quick") counts as *)
(* one letter.  str.split(), " ".join, str.strip() and slicing do here     *)
(* what they do in Python.                                                 *)
(***************************************************************************)
Space == " "
Min2(a, b) == IF a <= b THEN a ELSE b

\* str.split(): the maximal runs of characters that are not spaces
RECURSIVE SplitFrom(_, _, _, _)
SplitFrom(s, i, word, words) ==
    IF i > Len(s)
    THEN IF word = <<>> THEN words ELSE Append(words, word)
    ELSE IF s[i] = Space
         THEN SplitFrom(s, i + 1, <<>>, IF word = <<>> THEN words ELSE Append(words, word))
         ELSE SplitFrom(s, i + 1, Append(word, s[i]), words)
Split(s) == SplitFrom(s, 1, <<>>, <<>>)

\* " ".join(words)
RECURSIVE JoinSpace(_)
JoinSpace(words) ==
    IF Len(words) = 0 THEN <<>>
    ELSE IF Len(words) = 1 THEN words[1]
    ELSE words[1] \o <<Space>> \o JoinSpace(Tail(words))

\* str.strip()
RECURSIVE LStrip(_)
LStrip(s) == IF Len(s) > 0 /\ s[1] = Space THEN LStrip(Tail(s)) ELSE s
RECURSIVE RStrip(_)
RStrip(s) ==
    IF Len(s) > 0 /\ s[Len(s)] = Space THEN RStrip(SubSeq(s, 1, Len(s) - 1)) ELSE s
Strip(s) == RStrip(LStrip(s))

\* words[-n:] and words[:n] and words[n:], for 0 < n <= len(words)
LastWords(words, n) == SubSeq(words, Len(words) - n + 1, Len(words))
FirstWords(words, n) == SubSeq(words, 1, n)
WordsFrom(words, n) == SubSeq(words, n + 1, Len(words))

(***************************************************************************)
(* clean_combined_transcription, lines 422-452.                            *)
(***************************************************************************)
\* line 439: max_overlap = min(10, len(combined_words), len(current_words))
MaxOverlap(combined_words, current_words) ==
    Min2(MaxOverlapWords, Min2(Len(combined_words), Len(current_words)))

\* a variant of the loop of line 442 that stops before overlap_len = 1
RECURSIVE FindOverlapFromTwo(_, _, _)
FindOverlapFromTwo(combined_words, current_words, overlap_len) ==
    IF overlap_len <= 1 THEN 0
    ELSE IF LastWords(combined_words, overlap_len) = FirstWords(current_words, overlap_len)
         THEN overlap_len
         ELSE FindOverlapFromTwo(combined_words, current_words, overlap_len - 1)

\* lines 440-445: for overlap_len in range(max_overlap, 0, -1), the first match
RECURSIVE FindOverlap(_, _, _)
FindOverlap(combined_words, current_words, overlap_len) ==
    IF overlap_len <= 0 THEN 0
    ELSE IF LastWords(combined_words, overlap_len) = FirstWords(current_words, overlap_len)
         THEN overlap_len
         ELSE FindOverlap(combined_words, current_words, overlap_len - 1)

\* lines 436-445: overlap_found for combined and the next transcript
OverlapFound(comb, current_transcription) ==
    LET combined_words == Split(comb)
        current_words == Split(current_transcription)
    IN  FindOverlap(combined_words, current_words,
                    MaxOverlap(combined_words, current_words))

\* a variant of line 448 that joins current_words[overlap_found + 1:]
MergeNextDropsWord(comb, current_transcription) ==
    LET overlap_found == OverlapFound(comb, current_transcription)
    IN  IF overlap_found > 0
        THEN comb \o <<Space>>
                  \o JoinSpace(WordsFrom(Split(current_transcription), overlap_found + 1))
        ELSE comb \o <<Space>> \o current_transcription

\* lines 435-450: one pass of the loop body
MergeNext(comb, current_transcription) ==
    LET overlap_found == OverlapFound(comb, current_transcription)
    IN  IF overlap_found > 0
        THEN comb \o <<Space>>
                  \o JoinSpace(WordsFrom(Split(current_transcription), overlap_found))
        ELSE comb \o <<Space>> \o current_transcription

\* lines 426-432: the empty and the one-element argument return at once
ReconcileEnterNoShortcut ==
    /\ rpc = "call"
    /\ IF Len(transcriptions) = 0
       THEN /\ returned' = <<>>
            /\ rpc' = "done"
            /\ UNCHANGED <<combined, idx>>
       ELSE /\ combined' = transcriptions[1]
            /\ idx' = 2
            /\ rpc' = "loop"
            /\ UNCHANGED returned
    /\ UNCHANGED transcriptions

ReconcileEnter ==
    /\ rpc = "call"
    /\ IF Len(transcriptions) = 0
       THEN /\ returned' = <<>>
            /\ rpc' = "done"
            /\ UNCHANGED <<combined, idx>>
       ELSE IF Len(transcriptions) = 1
       THEN /\ returned' = transcriptions[1]
            /\ rpc' = "done"
            /\ UNCHANGED <<combined, idx>>
       ELSE /\ combined' = transcriptions[1]
            /\ idx' = 2
            /\ rpc' = "loop"
            /\ UNCHANGED returned
    /\ UNCHANGED transcriptions

\* lines 434-450: for i in range(1, len(transcriptions))
ReconcileMerge ==
    /\ rpc = "loop"
    /\ idx <= Len(transcriptions)
    /\ combined' = MergeNext(combined, transcriptions[idx])
    /\ idx' = idx + 1
    /\ UNCHANGED <<transcriptions, rpc, returned>>

\* line 452: return combined.strip()
ReconcileReturn ==
    /\ rpc = "loop"
    /\ idx > Len(transcriptions)
    /\ returned' = Strip(combined)
    /\ rpc' = "done"
    /\ UNCHANGED <<transcriptions, combined, idx>>

\* The transcripts the callers pass: trimmed and not empty (lines 339-340).
\* Generated ones are up to MaxWords words over two letters, single-spaced.
Vocabulary == {"a", "b"}
RECURSIVE Sentence(_)
Sentence(letters) ==
    IF Len(letters) = 0 THEN <<>>
    ELSE IF Len(letters) = 1 THEN <<letters[1]>>
    ELSE <<letters[1], Space>> \o Sentence(Tail(letters))
GeneratedTranscripts ==
    {Sentence(ws) : ws \in UNION {[1..n -> Vocabulary] : n \in 1..MaxWords}}
GeneratedInputs ==
    UNION {[1..n -> GeneratedTranscripts] : n \in 0..MaxTranscripts}
Repeated(letter, n) == Sentence([i \in 1..n |-> letter])
QuickBrownFox ==
    <<Sentence(<<"the", "quick", "brown", "fox">>),
      Sentence(<<"brown", "fox", "jumps", "over">>)>>
HelloWorld ==
    <<Sentence(<<"hello", "world">>), Sentence(<<"goodbye", "moon">>)>>
\* chosen inputs: the two examples of the specification, runs of one word
\* longer than the 10-word search, a three-word overlap, transcripts with
\* two spaces between words, and single transcripts that are empty, blank or
\* padded with spaces
ChosenInputs ==
    {QuickBrownFox, HelloWorld,
     <<Repeated("a", MaxOverlapWords + 1), Repeated("a", MaxOverlapWords + 1)>>,
     <<Repeated("a", MaxOverlapWords + 2), Repeated("a", MaxOverlapWords)>>,
     <<Sentence(<<"a", "b", "a", "b">>), Sentence(<<"b", "a", "b", "b">>), Sentence(<<"b">>)>>,
     <<<<"a", Space, Space, "b">>, <<"b", Space, Space, "a">>>>,
     <<<<"a", Space, "b">>, <<"a", Space, Space, "c">>, <<"c">>>>,
     <<<<>>>>, <<<<Space>>>>, <<<<Space, "a", Space, Space, "b", Space>>>>}

ReconInit(inputs) ==
    /\ transcriptions \in inputs
    /\ combined = <<>>
    /\ idx = 0
    /\ rpc = "call"
    /\ returned = <<>>

\* clean_combined_transcription is not running
ReconIdle ==
    /\ transcriptions = <<>>
    /\ combined = <<>>
    /\ idx = 0
    /\ rpc = "idle"
    /\ returned = <<>>

----------------------------------------------------------------------------
(***************************************************************************)
(* The tier choice of transcribe_audio_file, lines 239-251, and the        *)
(* chunking loops of transcribe_long_audio, lines 298-315, and             *)
(* transcribe_very_long_audio, lines 360-377.                              *)
(***************************************************************************)
\* a variant of lines 246-248 with >= for >
TierOfInclusive(len) ==
    IF len >= LongLimitSeconds * SamplingRate THEN "VERY_LONG"
    ELSE IF len >= ShortLimitSeconds * SamplingRate THEN "LONG"
    ELSE "SHORT"

\* lines 240-251: duration = len(audio_array) / sampling_rate against 600 and 30
TierOf(len) ==
    IF len > LongLimitSeconds * SamplingRate THEN "VERY_LONG"
    ELSE IF len > ShortLimitSeconds * SamplingRate THEN "LONG"
    ELSE "SHORT"

\* lines 298-301 and 360-363
ChunkSamplesOf(t) ==
    IF t = "LONG" THEN LongChunkSeconds * SamplingRate
                  ELSE VeryLongChunkSeconds * SamplingRate
OverlapSamplesOf(t) ==
    IF t = "LONG" THEN LongOverlapSeconds * SamplingRate
                  ELSE VeryLongOverlapSeconds * SamplingRate

Chunk(first, last, len) == [first |-> first, last |-> last, len |-> len]

\* lines 246-251 and the first lines of the transcriber chosen; the short
\* transcriber gets the whole array as it is
SelectTier ==
    /\ spc = "select"
    /\ tier' = TierOf(audio_len)
    /\ IF TierOf(audio_len) = "SHORT"
       THEN /\ chunks' = <<Chunk(0, audio_len, audio_len)>>
            /\ spc' = "segmented"
            /\ UNCHANGED <<chunk_samples, overlap_samples, start>>
       ELSE /\ chunk_samples' = ChunkSamplesOf(TierOf(audio_len))
            /\ overlap_samples' = OverlapSamplesOf(TierOf(audio_len))
            /\ start' = 0
            /\ chunks' = <<>>
            /\ spc' = "loop"
    /\ UNCHANGED audio_len

\* a variant of lines 308-309 that never pads
PaddedLenNever(len, first, cs) == len

\* lines 308-309 and 370-371: np.pad to chunk_samples unless it is the first chunk
PaddedLen(len, first, cs) == IF len < cs /\ first > 0 THEN cs ELSE len

\* a variant of lines 315 and 377 that forgets the overlap
NextStartNoOverlap(last, ov) == last

\* a variant of lines 315 and 377 that steps back by twice the overlap
NextStartDoubleOverlap(last, ov) == last - ov - ov

\* lines 315 and 377: start = end - overlap_samples
NextStart(last, ov) == last - ov

\* lines 304-315 and 366-377: one pass of the while loop
ChunkingPass ==
    /\ spc = "loop"
    /\ IF start < audio_len
       THEN LET last == Min2(start + chunk_samples, audio_len)
            IN  /\ chunks' = Append(chunks,
                                    Chunk(start, last,
                                          PaddedLen(last - start, start, chunk_samples)))
                /\ IF last >= audio_len
                   THEN spc' = "segmented" /\ UNCHANGED start
                   ELSE start' = NextStart(last, overlap_samples) /\ UNCHANGED spc
       ELSE spc' = "segmented" /\ UNCHANGED <<start, chunks>>
    /\ UNCHANGED <<audio_len, tier, chunk_samples, overlap_samples>>

ChunkLong == tier = "LONG" /\ ChunkingPass
ChunkVeryLong == tier = "VERY_LONG" /\ ChunkingPass

\* the lengths preprocess_audio hands over: whole seconds up to MaxSeconds,
\* and those plus one sample and plus all but one sample of a second
AudioLengths ==
    {sec * SamplingRate + d : sec \in 0..MaxSeconds, d \in {0, 1, SamplingRate - 1}} \ {0}

SegInit(lengths) ==
    /\ audio_len \in lengths
    /\ tier = "none"
    /\ chunk_samples = 0
    /\ overlap_samples = 0
    /\ start = 0
    /\ chunks = <<>>
    /\ spc = "select"

SegIdle ==
    /\ audio_len = 0
    /\ tier = "none"
    /\ chunk_samples = 0
    /\ overlap_samples = 0
    /\ start = 0
    /\ chunks = <<>>
    /\ spc = "idle"

----------------------------------------------------------------------------
(***************************************************************************)
(* transcribe_audio_file, lines 215-263, and the transcribers it calls.    *)
(***************************************************************************)
\* len(content): the largest size accepted and the smallest one rejected
UploadSizes == {MaxUploadBytes, MaxUploadBytes + 1}

\* what processor.batch_decode(...)[0] gives for a chunk: nothing but white
\* space, or words with or without white space around them
BlankOutput == <<Space>>
WordOutputs ==
    {<<"a", Space, "b">>,
     <<Space, "b", Space, "a", Space>>}
RawOutputs == {BlankOutput} \cup WordOutputs

Decoded(i, raw) == [index |-> i, raw |-> raw]

\* lines 221-228: the size check; file.read() may raise
ReadUploadRewrapped ==
    /\ tpc = "read"
    /\ \/ /\ content_size > MaxUploadBytes
          /\ t_result' = CriticalError("File too large")
          /\ tpc' = "done"
       \/ /\ content_size <= MaxUploadBytes
          /\ tpc' = "load"
          /\ UNCHANGED t_result
       \/ /\ t_result' = CriticalError("read")
          /\ tpc' = "done"
    /\ UNCHANGED <<whisper_model_cache, content_size, temp_file, chunk_i,
                   all_transcriptions, decoded, routine_result>>

ReadUpload ==
    /\ tpc = "read"
    /\ \/ /\ content_size > MaxUploadBytes
          /\ t_result' = HTTPException(413, <<"File too large">>)
          /\ tpc' = "done"
       \/ /\ content_size <= MaxUploadBytes
          /\ tpc' = "load"
          /\ UNCHANGED t_result
       \/ /\ t_result' = CriticalError("read")
          /\ tpc' = "done"
    /\ UNCHANGED <<whisper_model_cache, content_size, temp_file, chunk_i,
                   all_transcriptions, decoded, routine_result>>

\* line 230 and load_whisper_model, lines 178-195
LoadWhisperModel ==
    /\ tpc = "load"
    /\ \/ /\ whisper_model_cache' = TRUE
          /\ tpc' = "tempfile"
          /\ UNCHANGED t_result
       \/ /\ ~whisper_model_cache
          /\ t_result' = HTTPException(500, <<"Error loading Whisper model">>)
          /\ tpc' = "done"
          /\ UNCHANGED whisper_model_cache
    /\ UNCHANGED <<content_size, temp_file, chunk_i, all_transcriptions, decoded,
                   routine_result>>

\* lines 233-235: the file is created with delete=False, then written
WriteTempFile ==
    /\ tpc = "tempfile"
    /\ \/ /\ temp_file' = TRUE
          /\ tpc' = "preprocess"
          /\ UNCHANGED t_result
       \/ /\ temp_file' \in BOOLEAN
          /\ t_result' = CriticalError("write")
          /\ tpc' = "done"
    /\ UNCHANGED <<whisper_model_cache, content_size, chunk_i, all_transcriptions,
                   decoded, routine_result>>

\* lines 239-240 and preprocess_audio, lines 197-213
PreprocessAudio(lengths) ==
    /\ tpc = "preprocess"
    /\ \/ /\ \E len \in lengths : audio_len' = len
          /\ spc' = "select"
          /\ tpc' = "routine"
          /\ UNCHANGED routine_result
       \/ /\ routine_result' = HTTPException(500, <<"Error preprocessing audio">>)
          /\ tpc' = "finally"
          /\ UNCHANGED <<audio_len, spc>>
    /\ UNCHANGED <<tier, chunk_samples, overlap_samples, start, chunks>>
    /\ UNCHANGED <<whisper_model_cache, content_size, temp_file, chunk_i,
                   all_transcriptions, decoded, t_result>>

\* transcribe_short_audio, lines 265-291
TranscribeShort ==
    /\ tpc = "routine"
    /\ spc = "segmented"
    /\ tier = "SHORT"
    /\ \/ \E raw \in RawOutputs : routine_result' = Transcript(Strip(raw))
       \/ routine_result' = HTTPException(500, <<"Short audio transcription failed">>)
    /\ tpc' = "finally"
    /\ UNCHANGED <<whisper_model_cache, content_size, temp_file, chunk_i,
                   all_transcriptions, decoded, t_result>>

\* a variant of lines 339-340 that keeps the text as decoded
KeptUntrimmed(all, raw) == Append(all, raw)

\* lines 339-340 and 406-407
Kept(all, raw) == IF Strip(raw) # <<>> THEN Append(all, Strip(raw)) ELSE all

\* lines 319-344 and 383-411: one pass of the for loop: the chunk is decoded
\* to words, or to white space, or an exception is logged and the loop goes on
DecodePass ==
    /\ tpc = "routine"
    /\ spc = "segmented"
    /\ chunk_i <= Len(chunks)
    /\ \/ /\ Len(decoded) < MaxDecoded
          /\ \E raw \in WordOutputs :
                /\ all_transcriptions' = Kept(all_transcriptions, raw)
                /\ decoded' = Append(decoded, Decoded(chunk_i, raw))
       \/ /\ all_transcriptions' = Kept(all_transcriptions, BlankOutput)
          /\ UNCHANGED decoded
       \/ UNCHANGED <<all_transcriptions, decoded>>
    /\ chunk_i' = chunk_i + 1
    /\ UNCHANGED <<whisper_model_cache, content_size, temp_file, tpc, routine_result,
                   t_result>>

DecodeLong == tier = "LONG" /\ DecodePass
DecodeVeryLong == tier = "VERY_LONG" /\ DecodePass

\* the prefix of lines 353 and 420
RoutineFailure(t) ==
    IF t = "LONG" THEN "Long audio transcription failed"
                  ELSE "Very long audio transcription failed"

\* lines 346-347 and 413-414, caught and wrapped by lines 351-353 and 418-420
NoTranscriptions ==
    /\ tpc = "routine"
    /\ spc = "segmented"
    /\ tier \in {"LONG", "VERY_LONG"}
    /\ chunk_i > Len(chunks)
    /\ all_transcriptions = <<>>
    /\ routine_result' =
          HTTPException(500, <<RoutineFailure(tier), "No successful chunk transcriptions">>)
    /\ tpc' = "finally"
    /\ UNCHANGED <<whisper_model_cache, content_size, temp_file, chunk_i,
                   all_transcriptions, decoded, t_result>>

\* lines 349 and 416: the call of clean_combined_transcription
CombineCall ==
    /\ tpc = "routine"
    /\ spc = "segmented"
    /\ tier \in {"LONG", "VERY_LONG"}
    /\ chunk_i > Len(chunks)
    /\ all_transcriptions # <<>>
    /\ transcriptions' = all_transcriptions
    /\ rpc' = "call"
    /\ tpc' = "combine"
    /\ UNCHANGED <<combined, idx, returned>>
    /\ UNCHANGED <<whisper_model_cache, content_size, temp_file, chunk_i,
                   all_transcriptions, decoded, routine_result, t_result>>

\* lines 349 and 416: the transcriber returns what the merger returned
CombineReturn ==
    /\ tpc = "combine"
    /\ rpc = "done"
    /\ routine_result' = Transcript(returned)
    /\ tpc' = "finally"
    /\ UNCHANGED <<whisper_model_cache, content_size, temp_file, chunk_i,
                   all_transcriptions, decoded, t_result>>

\* lines 252-263: os.unlink in the finally block, its failure swallowed, and
\* the result or the HTTPException passed on
UnlinkTempFile ==
    /\ tpc = "finally"
    /\ temp_file' \in {FALSE, temp_file}
    /\ t_result' = routine_result
    /\ tpc' = "done"
    /\ UNCHANGED <<whisper_model_cache, content_size, chunk_i, all_transcriptions,
                   decoded, routine_result>>

TransInit(sizes) ==
    /\ whisper_model_cache = FALSE
    /\ content_size \in sizes
    /\ temp_file = FALSE
    /\ tpc = "read"
    /\ chunk_i = 1
    /\ all_transcriptions = <<>>
    /\ decoded = <<>>
    /\ routine_result = Pending
    /\ t_result = Pending

\* transcribe_audio_file is not running
TransIdle ==
    /\ whisper_model_cache = FALSE
    /\ content_size = 0
    /\ temp_file = FALSE
    /\ tpc = "idle"
    /\ chunk_i = 1
    /\ all_transcriptions = <<>>
    /\ decoded = <<>>
    /\ routine_result = Pending
    /\ t_result = Pending

----------------------------------------------------------------------------
(***************************************************************************)
(* full_analysis_endpoint, lines 712-747, with recognize_intent_endpoint,  *)
(* lines 501-571, and generate_resolution_endpoint, lines 573-710, which   *)
(* it awaits.  One request, by caller 1.                                   *)
(***************************************************************************)
Configured(api_key, project_id, model_id) ==
    [api_key |-> api_key, project_id |-> project_id, model_id |-> model_id]
Environments ==
    {Configured(TRUE, TRUE, TRUE), Configured(FALSE, TRUE, TRUE),
     Configured(TRUE, TRUE, FALSE)}

\* result.get("choices", [{}])[0].get("message", {}).get("content", "")
ContentOf(body) ==
    IF body = "content" THEN <<Space, "GST_REGISTRATION", Space, "query", Space>>
    ELSE IF body = "blank" THEN <<Space>>
    ELSE <<>>

\* bool(result) of lines 557 and 696
Truthy(body) == body # "{}"

\* the keys of resolution_templates, lines 594-654
ResolutionTemplates ==
    {<<"GST_REGISTRATION">>, <<"GST_COMPLIANCE">>, <<"GST_CALCULATION">>,
     <<"LICENSE_APPLICATION">>, <<"LICENSE_RENEWAL">>, <<"LICENSE_COMPLIANCE">>,
     <<"TAX_FILING">>, <<"BUSINESS_SETUP">>, <<"DOCUMENTATION">>, <<"OTHER">>}

\* lines 657-659, for an intent with at least one word
IntentCategory(text) ==
    IF Split(text)[1] \in ResolutionTemplates THEN Split(text)[1] ELSE <<"OTHER">>

\* lines 509 and 581: all([api_key, project_id, model_id])
AllConfigured == env.api_key /\ env.project_id /\ env.model_id

Outcome(stage, ok) == [stage |-> stage, ok |-> ok]

\* the endpoint raises e: lines 743-744 pass an HTTPException on
AnalyzeRaises(e) ==
    /\ analyze_result' = e
    /\ apc' = "done"

\* a variant of line 724 that goes on whatever transcribe_audio_file did
TranscriptionNeverRaises(r) == FALSE

\* line 724: an exception of transcribe_audio_file leaves the endpoint
TranscriptionRaised(r) == r.kind = "HTTPException"

\* lines 715-724: the file name, the API key, and the call of transcribe_audio_file
AnalyzeEnter ==
    /\ apc = "idle"
    /\ \E mp3 \in BOOLEAN, size \in UploadSizes :
         IF ~mp3
         THEN /\ AnalyzeRaises(HTTPException(400, <<"Only MP3 files are supported">>))
              /\ UNCHANGED <<stages, tpc, content_size>>
         ELSE IF ~env.api_key
         THEN /\ AnalyzeRaises(HTTPException(500,
                                  <<"API_KEY not found in environment variables">>))
              /\ UNCHANGED <<stages, tpc, content_size>>
         ELSE /\ apc' = "transcription"
              /\ stages' = Append(stages, "transcription")
              /\ tpc' = "read"
              /\ content_size' = size
              /\ UNCHANGED analyze_result
    /\ UNCHANGED <<env, transcription, intent, intent_category, outcomes>>
    /\ UNCHANGED <<whisper_model_cache, temp_file, chunk_i, all_transcriptions, decoded,
                   routine_result, t_result>>

\* line 724: transcribe_audio_file has returned or raised; its locals and those
\* of the functions it called are gone, the loaded model and the file system stay
TranscriptionReturns ==
    /\ apc = "transcription"
    /\ tpc = "done"
    /\ outcomes' = Append(outcomes, Outcome("transcription", t_result.kind = "transcript"))
    /\ IF TranscriptionRaised(t_result)
       THEN /\ AnalyzeRaises(t_result)
            /\ UNCHANGED transcription
       ELSE /\ transcription' = t_result.text
            /\ apc' = "intent"
            /\ UNCHANGED analyze_result
    /\ tpc' = "idle"
    /\ content_size' = 0
    /\ chunk_i' = 1
    /\ all_transcriptions' = <<>>
    /\ decoded' = <<>>
    /\ routine_result' = Pending
    /\ t_result' = Pending
    /\ audio_len' = 0
    /\ tier' = "none"
    /\ chunk_samples' = 0
    /\ overlap_samples' = 0
    /\ start' = 0
    /\ chunks' = <<>>
    /\ spc' = "idle"
    /\ transcriptions' = <<>>
    /\ combined' = <<>>
    /\ idx' = 0
    /\ rpc' = "idle"
    /\ returned' = <<>>
    /\ UNCHANGED <<whisper_model_cache, temp_file>>
    /\ UNCHANGED <<env, intent, intent_category, stages>>

\* lines 727 and 504-555: recognize_intent_endpoint up to its remote call
RecognizeIntentEnter ==
    /\ apc = "intent"
    /\ IF ~AllConfigured
       THEN /\ AnalyzeRaises(HTTPException(500,
                                <<"Missing required environment variables">>))
            /\ outcomes' = Append(outcomes, Outcome("intent", FALSE))
            /\ UNCHANGED <<clientVars, stages>>
       ELSE IF transcription = <<>>
       THEN /\ AnalyzeRaises(HTTPException(400, <<"Text content is required">>))
            /\ outcomes' = Append(outcomes, Outcome("intent", FALSE))
            /\ UNCHANGED <<clientVars, stages>>
       ELSE /\ EnterRequest(1, DefaultMaxRetries)
            /\ stages' = Append(stages, "intent")
            /\ apc' = "intent_call"
            /\ UNCHANGED <<analyze_result, outcomes>>
    /\ UNCHANGED <<env, transcription, intent, intent_category>>

\* lines 555-571: the result of the remote call, or its exception passed on
IntentReturns ==
    /\ apc = "intent_call"
    /\ pc[1] = "done"
    /\ LET r == result[1]
           ok == r.kind = "returned" /\ Truthy(r.body)
       IN  /\ outcomes' = Append(outcomes, Outcome("intent", ok))
           /\ IF ok
              THEN /\ intent' = Strip(ContentOf(r.body))
                   /\ apc' = "resolution"
                   /\ UNCHANGED analyze_result
              ELSE IF r.kind \in {"returned", "returned_none"}
              THEN /\ AnalyzeRaises(HTTPException(500,
                                       <<"Failed to get intent recognition response">>))
                   /\ UNCHANGED intent
              ELSE /\ AnalyzeRaises(HTTPException(r.status, <<r.kind>>))
                   /\ UNCHANGED intent
    /\ UNCHANGED <<env, transcription, intent_category, stages>>

\* lines 730-733 and 576-694: generate_resolution_endpoint up to its remote call
GenerateResolutionEnter ==
    /\ apc = "resolution"
    /\ IF ~AllConfigured
       THEN /\ AnalyzeRaises(HTTPException(500,
                                <<"Missing required environment variables">>))
            /\ outcomes' = Append(outcomes, Outcome("resolution", FALSE))
            /\ UNCHANGED <<clientVars, stages, intent_category>>
       ELSE IF transcription = <<>> \/ intent = <<>>
       THEN /\ AnalyzeRaises(HTTPException(400,
                                <<"Both content and intent are required">>))
            /\ outcomes' = Append(outcomes, Outcome("resolution", FALSE))
            /\ UNCHANGED <<clientVars, stages, intent_category>>
       ELSE IF Split(intent) = <<>>
       THEN \* intent.split()[0] raises IndexError, wrapped by lines 708-710
            /\ AnalyzeRaises(HTTPException(500, <<"Resolution generation failed">>))
            /\ outcomes' = Append(outcomes, Outcome("resolution", FALSE))
            /\ UNCHANGED <<clientVars, stages, intent_category>>
       ELSE /\ intent_category' = IntentCategory(intent)
            /\ EnterRequest(1, DefaultMaxRetries)
            /\ stages' = Append(stages, "resolution")
            /\ apc' = "resolution_call"
            /\ UNCHANGED <<analyze_result, outcomes>>
    /\ UNCHANGED <<env, transcription, intent>>

\* lines 694-710 and 735-741: the resolution, and the response of the endpoint
ResolutionReturns ==
    /\ apc = "resolution_call"
    /\ pc[1] = "done"
    /\ LET r == result[1]
           ok == r.kind = "returned" /\ Truthy(r.body)
       IN  /\ outcomes' = Append(outcomes, Outcome("resolution", ok))
           /\ IF ok
              THEN analyze_result' = FullAnalysis(Strip(ContentOf(r.body)))
              ELSE IF r.kind \in {"returned", "returned_none"}
              THEN analyze_result' =
                      HTTPException(500, <<"Failed to get resolution response">>)
              ELSE analyze_result' = HTTPException(r.status, <<r.kind>>)
    /\ apc' = "done"
    /\ UNCHANGED <<env, transcription, intent, intent_category, stages>>

AnInit(environments) ==
    /\ env \in environments
    /\ apc = "idle"
    /\ transcription = <<>>
    /\ intent = <<>>
    /\ intent_category = <<>>
    /\ analyze_result = Pending
    /\ stages = <<>>
    /\ outcomes = <<>>

\* no /analyze request: the other specifications run with everything configured
AnIdle ==
    /\ env = Configured(TRUE, TRUE, TRUE)
    /\ apc = "none"
    /\ transcription = <<>>
    /\ intent = <<>>
    /\ intent_category = <<>>
    /\ analyze_result = Pending
    /\ stages = <<>>
    /\ outcomes = <<>>

----------------------------------------------------------------------------
(***************************************************************************)
(* Spec: uvicorn runs the async handlers on one event loop and none of     *)
(* them awaits inside make_watsonx_request, so calls run one after         *)
(* another.  SpecConc: two callers run the same statements interleaved.    *)
(***************************************************************************)
\* a step of the client leaves the rest alone
ClientOnly == UNCHANGED <<reconVars, segVars, transVars, anVars>>

Init == ClientInit({1}) /\ ReconIdle /\ SegIdle /\ TransIdle /\ AnIdle

Next ==
    \/ Tick /\ ClientOnly
    \/ (\E p \in callers : StartCall(p)) /\ ClientOnly
    \/ (\E p \in callers : LoopHead(p)) /\ ClientOnly
    \/ (\E p \in callers : CheckToken(p)) /\ ClientOnly
    \/ (\E p \in callers : CheckExpiry(p)) /\ ClientOnly
    \/ (\E p \in callers : UseCached(p)) /\ ClientOnly
    \/ (\E p \in callers : ExchangeOK(p)) /\ ClientOnly
    \/ (\E p \in callers : ExchangeRaises(p)) /\ ClientOnly
    \/ (\E p \in callers : ExchangeNoToken(p)) /\ ClientOnly
    \/ (\E p \in callers : WriteToken(p)) /\ ClientOnly
    \/ (\E p \in callers : WriteExpiry(p)) /\ ClientOnly
    \/ (\E p \in callers : PostResponds(p)) /\ ClientOnly
    \/ (\E p \in callers : PostRaises(p)) /\ ClientOnly
    \/ (\E p \in callers : ClearToken(p)) /\ ClientOnly
    \/ (\E p \in callers : ClearExpiry(p)) /\ ClientOnly
    \/ (\E p \in callers : HandleRequestException(p)) /\ ClientOnly

Spec == Init /\ [][Next]_vars

\* The client with one caller and token lifetimes around the expiry buffer.
NextExpiry ==
    \/ Tick /\ ClientOnly
    \/ (\E p \in callers : StartCallFewRetries(p)) /\ ClientOnly
    \/ (\E p \in callers : LoopHead(p)) /\ ClientOnly
    \/ (\E p \in callers : CheckToken(p)) /\ ClientOnly
    \/ (\E p \in callers : CheckExpiry(p)) /\ ClientOnly
    \/ (\E p \in callers : UseCached(p)) /\ ClientOnly
    \/ (\E p \in callers : ExchangeGrants(p, BoundaryLifetimes)) /\ ClientOnly
    \/ (\E p \in callers : ExchangeRaises(p)) /\ ClientOnly
    \/ (\E p \in callers : ExchangeNoToken(p)) /\ ClientOnly
    \/ (\E p \in callers : WriteToken(p)) /\ ClientOnly
    \/ (\E p \in callers : WriteExpiry(p)) /\ ClientOnly
    \/ (\E p \in callers : PostResponds(p)) /\ ClientOnly
    \/ (\E p \in callers : PostRaises(p)) /\ ClientOnly
    \/ (\E p \in callers : ClearToken(p)) /\ ClientOnly
    \/ (\E p \in callers : ClearExpiry(p)) /\ ClientOnly
    \/ (\E p \in callers : HandleRequestException(p)) /\ ClientOnly

SpecExpiry == Init /\ [][NextExpiry]_vars

InitConc == ClientInit(Callers) /\ ReconIdle /\ SegIdle /\ TransIdle /\ AnIdle

\* the interleavings of the two callers, the clock standing still
NextConc ==
    \/ (\E p \in callers : StartCall(p)) /\ ClientOnly
    \/ (\E p \in callers : LoopHead(p)) /\ ClientOnly
    \/ (\E p \in callers : CheckToken(p)) /\ ClientOnly
    \/ (\E p \in callers : CheckExpiry(p)) /\ ClientOnly
    \/ (\E p \in callers : UseCached(p)) /\ ClientOnly
    \/ (\E p \in callers : ExchangeOK(p)) /\ ClientOnly
    \/ (\E p \in callers : ExchangeRaises(p)) /\ ClientOnly
    \/ (\E p \in callers : ExchangeNoToken(p)) /\ ClientOnly
    \/ (\E p \in callers : WriteToken(p)) /\ ClientOnly
    \/ (\E p \in callers : WriteExpiry(p)) /\ ClientOnly
    \/ (\E p \in callers : PostResponds(p)) /\ ClientOnly
    \/ (\E p \in callers : PostRaises(p)) /\ ClientOnly
    \/ (\E p \in callers : ClearToken(p)) /\ ClientOnly
    \/ (\E p \in callers : ClearExpiry(p)) /\ ClientOnly
    \/ (\E p \in callers : HandleRequestException(p)) /\ ClientOnly

SpecConc == InitConc /\ [][NextConc]_vars

(***************************************************************************)
(* SpecReconcile: clean_combined_transcription applied to every input of   *)
(* the bounded sets.                                                       *)
(***************************************************************************)
ReconOnly == UNCHANGED <<clientVars, segVars, transVars, anVars>>

InitReconcile ==
    /\ ClientInit({1})
    /\ ReconInit(GeneratedInputs \cup ChosenInputs)
    /\ SegIdle
    /\ TransIdle
    /\ AnIdle

NextReconcile ==
    \/ ReconcileEnter /\ ReconOnly
    \/ ReconcileMerge /\ ReconOnly
    \/ ReconcileReturn /\ ReconOnly

SpecReconcile == InitReconcile /\ [][NextReconcile]_vars

(***************************************************************************)
(* SpecSegment: the tier choice and the chunking loop for every length of  *)
(* the bounded set.                                                        *)
(***************************************************************************)
SegOnly == UNCHANGED <<clientVars, reconVars, transVars, anVars>>

InitSegment ==
    /\ ClientInit({1})
    /\ ReconIdle
    /\ SegInit(AudioLengths)
    /\ TransIdle
    /\ AnIdle

NextSegment ==
    \/ SelectTier /\ SegOnly
    \/ ChunkLong /\ SegOnly
    \/ ChunkVeryLong /\ SegOnly

SpecSegment == InitSegment /\ [][NextSegment]_vars

(***************************************************************************)
(* SpecBatch: one call of transcribe_audio_file, for an audio of each tier *)
(* and every outcome of each step.                                         *)
(***************************************************************************)
\* one short audio, long ones of two and of three chunks, a very long one
BatchLengths == {sec * SamplingRate : sec \in {1, 31, 59, 601}}
\* the same without the very long one
AnalyzeLengths == {sec * SamplingRate : sec \in {1, 31, 59}}

TransOnly == UNCHANGED <<clientVars, reconVars, segVars, anVars>>
TransAndSeg == UNCHANGED <<clientVars, reconVars, anVars>>
TransAndRecon == UNCHANGED <<clientVars, segVars, anVars>>

InitBatch ==
    /\ ClientInit({1})
    /\ ReconIdle
    /\ SegIdle
    /\ TransInit(UploadSizes)
    /\ AnIdle

NextBatch ==
    \/ ReadUpload /\ TransOnly
    \/ LoadWhisperModel /\ TransOnly
    \/ WriteTempFile /\ TransOnly
    \/ PreprocessAudio(BatchLengths) /\ TransAndSeg
    \/ SelectTier /\ SegOnly
    \/ ChunkLong /\ SegOnly
    \/ ChunkVeryLong /\ SegOnly
    \/ TranscribeShort /\ TransOnly
    \/ DecodeLong /\ TransOnly
    \/ DecodeVeryLong /\ TransOnly
    \/ NoTranscriptions /\ TransOnly
    \/ CombineCall /\ TransAndRecon
    \/ ReconcileEnter /\ ReconOnly
    \/ ReconcileMerge /\ ReconOnly
    \/ ReconcileReturn /\ ReconOnly
    \/ CombineReturn /\ TransOnly
    \/ UnlinkTempFile /\ TransOnly

SpecBatch == InitBatch /\ [][NextBatch]_vars

(***************************************************************************)
(* SpecAnalyze: one /analyze request from the upload to the response, for  *)
(* audio of the SHORT and LONG tiers (SpecBatch has the VERY_LONG one).    *)
(***************************************************************************)
AnAndClient == UNCHANGED <<reconVars, segVars, transVars>>
AnAndTrans == UNCHANGED <<clientVars, reconVars, segVars>>

InitAnalyze ==
    /\ ClientInit({1})
    /\ ReconIdle
    /\ SegIdle
    /\ TransIdle
    /\ AnInit(Environments)

NextAnalyze ==
    \/ AnalyzeEnter /\ AnAndTrans
    \/ ReadUpload /\ TransOnly
    \/ LoadWhisperModel /\ TransOnly
    \/ WriteTempFile /\ TransOnly
    \/ PreprocessAudio(AnalyzeLengths) /\ TransAndSeg
    \/ SelectTier /\ SegOnly
    \/ ChunkLong /\ SegOnly
    \/ TranscribeShort /\ TransOnly
    \/ DecodeLong /\ TransOnly
    \/ NoTranscriptions /\ TransOnly
    \/ CombineCall /\ TransAndRecon
    \/ ReconcileEnter /\ ReconOnly
    \/ ReconcileMerge /\ ReconOnly
    \/ ReconcileReturn /\ ReconOnly
    \/ CombineReturn /\ TransOnly
    \/ UnlinkTempFile /\ TransOnly
    \/ TranscriptionReturns /\ UNCHANGED clientVars
    \/ RecognizeIntentEnter /\ AnAndClient
    \/ Tick /\ ClientOnly
    \/ LoopHead(1) /\ ClientOnly
    \/ CheckToken(1) /\ ClientOnly
    \/ CheckExpiry(1) /\ ClientOnly
    \/ UseCached(1) /\ ClientOnly
    \/ ExchangeOK(1) /\ ClientOnly
    \/ ExchangeRaises(1) /\ ClientOnly
    \/ ExchangeNoToken(1) /\ ClientOnly
    \/ WriteToken(1) /\ ClientOnly
    \/ WriteExpiry(1) /\ ClientOnly
    \/ PostResponds(1) /\ ClientOnly
    \/ PostRaises(1) /\ ClientOnly
    \/ ClearToken(1) /\ ClientOnly
    \/ ClearExpiry(1) /\ ClientOnly
    \/ HandleRequestException(1) /\ ClientOnly
    \/ IntentReturns /\ UNCHANGED <<clientVars, reconVars, segVars, transVars>>
    \/ GenerateResolutionEnter /\ AnAndClient
    \/ ResolutionReturns /\ UNCHANGED <<clientVars, reconVars, segVars, transVars>>

SpecAnalyze == InitAnalyze /\ [][NextAnalyze]_vars

\* One POST /generate-resolution with the content and intent of its body, on an
\* empty credential cache.
\* intents: missing, blank, a label alone, a label followed or preceded by
\* other text, a label with a colon or in lower case, no label
IntentStrings ==
    {<<>>, <<Space>>, <<Space, Space>>,
     <<"GST_REGISTRATION">>, <<"LICENSE_RENEWAL", Space, "a">>,
     <<Space, "TAX_FILING", Space>>, <<"OTHER">>,
     <<"GST_REGISTRATION:">>, <<"gst_registration">>,
     <<"a">>, <<"a", Space, "TAX_FILING">>}
ResolutionContents == {<<>>, <<"a", Space, "b">>}

InitResolution ==
    /\ ClientInit({1})
    /\ ReconIdle
    /\ SegIdle
    /\ TransIdle
    /\ env \in Environments
    /\ apc = "resolution"
    /\ transcription \in ResolutionContents
    /\ intent \in IntentStrings
    /\ intent_category = <<>>
    /\ analyze_result = Pending
    /\ stages = <<>>
    /\ outcomes = <<>>

NextResolution ==
    \/ GenerateResolutionEnter /\ AnAndClient
    \/ Tick /\ ClientOnly
    \/ LoopHead(1) /\ ClientOnly
    \/ CheckToken(1) /\ ClientOnly
    \/ ExchangeOK(1) /\ ClientOnly
    \/ ExchangeRaises(1) /\ ClientOnly
    \/ ExchangeNoToken(1) /\ ClientOnly
    \/ WriteToken(1) /\ ClientOnly
    \/ WriteExpiry(1) /\ ClientOnly
    \/ PostResponds(1) /\ ClientOnly
    \/ PostRaises(1) /\ ClientOnly
    \/ ClearToken(1) /\ ClientOnly
    \/ ClearExpiry(1) /\ ClientOnly
    \/ HandleRequestException(1) /\ ClientOnly
    \/ ResolutionReturns /\ UNCHANGED <<clientVars, reconVars, segVars, transVars>>

SpecResolution == InitResolution /\ [][NextResolution]_vars

----------------------------------------------------------------------------
(***************************************************************************)
(* What a call has done so far, read off its history.                      *)
(***************************************************************************)
ExchangeTypes ==
    {"exchange", "exchange_network_error", "exchange_http_error", "exchange_no_token"}
PostTypes == {"post", "post_exception"}

CountIn(es, types) == Cardinality({i \in 1..Len(es) : es[i].type \in types})
Posts(p) == CountIn(events[p], PostTypes)
Exchanges(p) == CountIn(events[p], ExchangeTypes)
PostsUpTo(p, i) == CountIn(SubSeq(events[p], 1, i), PostTypes)
\* the statuses the inference POSTs of the call were answered with, in order
\* (0 for a POST that raised)
PostOutcomes(p) ==
    LET posts == SelectSeq(events[p], LAMBDA e : e.type \in PostTypes)
    IN  [i \in 1..Len(posts) |-> posts[i].status]
LastEvent(p) == events[p][Len(events[p])]
LastIs(p, types) == Len(events[p]) > 0 /\ LastEvent(p).type \in types
\* the events of the attempt that is running (those after the last clear or sleep)
AttemptStart(p) ==
    LET ends == {i \in 1..Len(events[p]) : events[p][i].type \in {"clear", "sleep"}}
    IN  IF ends = {} THEN 1 ELSE (CHOOSE i \in ends : \A j \in ends : j <= i) + 1
AttemptEvents(p) == SubSeq(events[p], AttemptStart(p), Len(events[p]))
\* get_access_token has just come back to make_watsonx_request with a token
GotCredential(p) == pc[p] = "post"
CurrentCache == [token |-> access_token_cache.token, expiry |-> access_token_cache.expiry]
EntryCache(p) == [token |-> at_entry[p].token, expiry |-> at_entry[p].expiry]

----------------------------------------------------------------------------
\* C1: with max_retries = 2, a call whose POSTs were answered 401 then 200 did
\* exactly this: got a credential, POSTed (401), cleared the cache, made one
\* forced exchange, POSTed again (200), and returned the body of that second
\* response; right after the clearing the cache holds (None, 0).
C1_RetryOnceOn401 ==
    \A p \in callers :
        /\ (pc[p] = "done" /\ max_retries[p] = 2
              /\ PostOutcomes(p) = <<StatusUnauthorized, StatusOK>>)
           => /\ Len(events[p]) = 5
              /\ events[p][1].type \in {"cached", "exchange"}
              /\ ~events[p][1].forced
              /\ events[p][2] = Event("post", FALSE, StatusUnauthorized)
              /\ events[p][3].type = "clear"
              /\ events[p][4] = Event("exchange", TRUE, StatusOK)
              /\ events[p][5] = Event("post", FALSE, StatusOK)
              /\ Posts(p) = 2
              /\ response[p].status = StatusOK
              /\ result[p] = Returned(response[p].body)
        /\ (pc[p] = "loop" /\ LastIs(p, {"clear"}))
           => /\ access_token_cache = ClearedCache
              /\ events[p][Len(events[p]) - 1] = Event("post", FALSE, StatusUnauthorized)

C1_Witness ==
    \E p \in callers :
        /\ pc[p] = "done" /\ max_retries[p] = 2
        /\ PostOutcomes(p) = <<StatusUnauthorized, StatusOK>>
        /\ result[p].kind = "returned"

\* C2: a POST answered with a status other than 200 and 401 ends the call in
\* that very step with RemoteAPIError(status, body), on whatever attempt; the
\* step leaves the cache and the exchange count alone, and a call that has
\* ended does nothing more.
C2_NoRetryOnOtherStatus ==
    [][\A p \in callers :
         /\ (pc[p] = "post" /\ LastIs(p, {"post"})'
               /\ Len(events'[p]) = Len(events[p]) + 1
               /\ LastEvent(p)'.status \notin {StatusOK, StatusUnauthorized})
            => /\ pc'[p] = "done"
               /\ result'[p] = RemoteAPIError(LastEvent(p)'.status, response'[p].body)
               /\ response'[p].status = LastEvent(p)'.status
               /\ response'[p].body \in Bodies
               /\ access_token_cache' = access_token_cache
               /\ issued' = issued
         /\ (pc[p] = "done" /\ pc'[p] = "done")
            => /\ events'[p] = events[p]
               /\ result'[p] = result[p]]_vars

C2_Witness ==
    \E p \in callers :
        /\ pc[p] = "done" /\ attempt[p] = 1
        /\ result[p].kind = "RemoteAPIError" /\ result[p].status = 403
        /\ access_token_cache.token # NoToken

\* C3: once get_access_token has come back: if it was not forced and found a
\* token in the cache with current_time < expiry, it made no exchange, returned
\* that token and left the cache as it was; if it was forced it made exactly one
\* exchange, whatever the cache held.
C3_CacheHitAndForcedRefresh ==
    \A p \in callers :
        /\ (GotCredential(p) /\ ~force_refresh[p] /\ at_entry[p].token # NoToken
              /\ current_time[p] < at_entry[p].expiry)
           => /\ issued = at_entry[p].issued
              /\ CountIn(AttemptEvents(p), ExchangeTypes) = 0
              /\ access_token[p] = at_entry[p].token
              /\ CurrentCache = EntryCache(p)
        /\ ((GotCredential(p) \/ pc[p] = "done") /\ force_refresh[p])
           => CountIn(AttemptEvents(p), ExchangeTypes) = 1
        /\ (GotCredential(p) /\ force_refresh[p])
           => /\ issued = at_entry[p].issued + 1
              /\ access_token[p] = issued

C3_Witness ==
    \E p \in callers :
        /\ pc[p] = "post" /\ ~force_refresh[p] /\ calls[p] = 2
        /\ at_entry[p].token # NoToken /\ current_time[p] < at_entry[p].expiry
        /\ access_token[p] = at_entry[p].token

\* C7 (as amended): a POST that raises on attempt a < max_retries is followed
\* by the 1 s sleep and attempt a+1; one that raises on attempt max_retries ends
\* the call with RemoteUnavailableError.  A call that has ended, whose POSTs all
\* raised and whose credential fetches all succeeded, made max_retries+1 POSTs
\* and max_retries sleeps and ended with RemoteUnavailableError.
AllPostsRaised(p) ==
    /\ Posts(p) >= 1
    /\ \A i \in 1..Len(events[p]) : events[p][i].type # "post"

C7_NetworkRetry ==
    \A p \in callers :
        /\ \A i \in 1..Len(events[p]) :
             (events[p][i].type = "post_exception" /\ i < Len(events[p]))
             => /\ events[p][i + 1].type = "sleep"
                /\ PostsUpTo(p, i) <= max_retries[p]
        /\ LastIs(p, {"post_exception"})
           => \/ pc[p] = "request_exception"
              \/ /\ pc[p] = "done"
                 /\ Posts(p) = max_retries[p] + 1
                 /\ result[p] = RemoteUnavailableError
        /\ LastIs(p, {"sleep"})
           => /\ pc[p] \in {"loop", "check_token", "check_expiry", "use_cached", "exchange"}
              /\ attempt[p] = Posts(p)
              /\ attempt[p] <= max_retries[p]
              /\ pc[p] = "loop" => now >= current_time[p] + SleepSeconds
        /\ (pc[p] = "done" /\ AllPostsRaised(p)
              /\ result[p].kind # "CredentialAcquisitionError")
           => /\ Posts(p) = max_retries[p] + 1
              /\ CountIn(events[p], {"sleep"}) = max_retries[p]
              /\ result[p] = RemoteUnavailableError

C7_Witness ==
    \E p \in callers :
        /\ pc[p] = "done" /\ max_retries[p] = 2 /\ AllPostsRaised(p)
        /\ Posts(p) = 3 /\ result[p] = RemoteUnavailableError

\* C7 as claimed: every call whose POSTs all raised made max_retries+1 POSTs
\* and ended with RemoteUnavailableError.
C7_AsClaimed ==
    \A p \in callers :
        (pc[p] = "done" /\ AllPostsRaised(p))
        => /\ Posts(p) = max_retries[p] + 1
           /\ result[p] = RemoteUnavailableError

ExchangeFailures == {"exchange_network_error", "exchange_http_error", "exchange_no_token"}

C9_FailedExchange ==
    \A p \in callers :
        LastIs(p, ExchangeFailures)
        => /\ CurrentCache = EntryCache(p)
           /\ issued = at_entry[p].issued
           /\ pc[p] = "done"
           /\ IF LastEvent(p).type = "exchange_no_token"
              THEN /\ gat_result[p] = "none"
                   /\ result[p] = CredentialAcquisitionError("Failed to obtain access token")
              ELSE /\ gat_result[p] = "raised"
                   /\ result[p] = CredentialAcquisitionError("Error getting access token")

C9_Witness ==
    \E p \in callers :
        /\ LastIs(p, {"exchange_no_token"})
        /\ gat_result[p] = "none"
        /\ access_token_cache.token # NoToken

\* C9 as claimed: after each of the three failures get_access_token itself has
\* raised, and the cache is as it was.
C9_AsClaimed ==
    \A p \in callers :
        LastIs(p, ExchangeFailures)
        => /\ gat_result[p] = "raised"
           /\ CurrentCache = EntryCache(p)

----------------------------------------------------------------------------
\* The reference fold of the specification (section 4.4): the largest k in
\* 1..min(10, |combined|, |next|) with the last k words of combined equal to the
\* first k words of next, 0 when there is none.
LargestOverlap(combined_words, next_words) ==
    LET ks == {k \in 1..Min2(MaxOverlapWords,
                             Min2(Len(combined_words), Len(next_words))) :
                 LastWords(combined_words, k) = FirstWords(next_words, k)}
    IN  IF ks = {} THEN 0 ELSE CHOOSE k \in ks : \A j \in ks : j <= k

\* on words: append the words of next after position k
RECURSIVE RefWords(_, _)
RefWords(ts, n) ==
    IF n = 1 THEN Split(ts[1])
    ELSE LET acc == RefWords(ts, n - 1)
             next_words == Split(ts[n])
         IN  acc \o WordsFrom(next_words, LargestOverlap(acc, next_words))

\* on strings: append the words of next after position k, or, when k = 0, the
\* whole of next, after one space
RECURSIVE RefString(_, _)
RefString(ts, n) ==
    IF n = 1 THEN ts[1]
    ELSE LET acc == RefString(ts, n - 1)
             next_words == Split(ts[n])
             k == LargestOverlap(Split(acc), next_words)
         IN  IF k > 0 THEN acc \o <<Space>> \o JoinSpace(WordsFrom(next_words, k))
                      ELSE acc \o <<Space>> \o ts[n]

\* C4: on two or more transcripts clean_combined_transcription computes the
\* reference fold, after every pass of its loop and in what it returns (as a
\* string, and so word for word), and it gives the two results the
\* specification states.
C4_ReconcileIsReferenceFold ==
    /\ (rpc = "loop")
       => /\ combined = RefString(transcriptions, idx - 1)
          /\ Split(combined) = RefWords(transcriptions, idx - 1)
    /\ (rpc = "done" /\ Len(transcriptions) >= 2)
       => /\ returned = Strip(RefString(transcriptions, Len(transcriptions)))
          /\ Split(returned) = RefWords(transcriptions, Len(transcriptions))
    /\ (rpc = "done" /\ transcriptions = QuickBrownFox)
       => returned = Sentence(<<"the", "quick", "brown", "fox", "jumps", "over">>)
    /\ (rpc = "done" /\ transcriptions = HelloWorld)
       => returned = Sentence(<<"hello", "world", "goodbye", "moon">>)

C4_Witness ==
    /\ rpc = "done"
    /\ transcriptions = QuickBrownFox
    /\ returned = Sentence(<<"the", "quick", "brown", "fox", "jumps", "over">>)

----------------------------------------------------------------------------
\* C5: in the LONG and VERY_LONG tiers the chunks emitted so far start at 0,
\* each next one starts overlap_samples before the end of the one before it
\* (32000 samples for LONG, 16000 for VERY_LONG; the last pair too), so they
\* leave no gap, and when the loop is over the last one ends at len(audio).
C5_ChunksCoverWithOverlap ==
    (tier \in {"LONG", "VERY_LONG"} /\ spc \in {"loop", "segmented"})
    => /\ overlap_samples = (IF tier = "LONG" THEN 32000 ELSE 16000)
       /\ Len(chunks) > 0 => chunks[1].first = 0
       /\ \A i \in 1..Len(chunks) :
            /\ chunks[i].first < chunks[i].last
            /\ chunks[i].last <= audio_len
       /\ \A i \in 1..(Len(chunks) - 1) :
            /\ chunks[i + 1].first = chunks[i].last - overlap_samples
            /\ chunks[i + 1].first < chunks[i].last
            /\ chunks[i + 1].last > chunks[i].last
       /\ spc = "loop" /\ Len(chunks) > 0
          => start = chunks[Len(chunks)].last - overlap_samples
       /\ spc = "segmented"
          => /\ Len(chunks) > 0
             /\ chunks[Len(chunks)].last = audio_len

C5_Witness ==
    /\ tier = "LONG"
    /\ spc = "segmented"
    /\ Len(chunks) = 3
    /\ chunks[3].last = audio_len
    /\ chunks[3].len > chunks[3].last - chunks[3].first

----------------------------------------------------------------------------
\* the chunks that were decoded to words, and their trimmed texts
Survivors == SelectSeq(decoded, LAMBDA d : Strip(d.raw) # <<>>)
TrimmedSurvivors == [j \in 1..Len(Survivors) |-> Strip(Survivors[j].raw)]
\* the merge of the claim about the merger, applied to the survivors
MergedSurvivors ==
    IF Len(TrimmedSurvivors) = 1 THEN TrimmedSurvivors[1]
    ELSE Strip(RefString(TrimmedSurvivors, Len(TrimmedSurvivors)))
Chunked == tier \in {"LONG", "VERY_LONG"} /\ spc = "segmented"

\* C6: in the LONG and VERY_LONG tiers a chunk that fails is skipped and the
\* loop goes on to the last chunk; all_transcriptions, and the argument of
\* clean_combined_transcription, are exactly the trimmed non-blank texts of
\* the chunks that were decoded, in the order of their indices; the transcript
\* returned is the merge of those; when there is none the transcriber raises
\* HTTPException 500 "No successful chunk transcriptions" and returns nothing.
C6_SurvivorsOnly ==
    Chunked
    => /\ \A j \in 1..Len(decoded) :
            /\ decoded[j].index \in 1..(chunk_i - 1)
            /\ j > 1 => decoded[j - 1].index < decoded[j].index
       /\ all_transcriptions = TrimmedSurvivors
       /\ \A j \in 1..Len(all_transcriptions) :
            /\ all_transcriptions[j] # <<>>
            /\ Strip(all_transcriptions[j]) = all_transcriptions[j]
       /\ tpc \in {"combine", "finally", "done"} => chunk_i = Len(chunks) + 1
       /\ tpc = "combine" => transcriptions = TrimmedSurvivors /\ Survivors # <<>>
       /\ tpc \in {"finally", "done"}
          => IF Survivors = <<>>
             THEN routine_result =
                     HTTPException(500, <<RoutineFailure(tier),
                                          "No successful chunk transcriptions">>)
             ELSE routine_result = Transcript(MergedSurvivors)
       /\ tpc = "done" => t_result = routine_result

\* chunk 2 of 3 failed and a transcript of chunks 1 and 3 is returned
C6_Witness ==
    /\ Chunked
    /\ tpc = "done"
    /\ Len(chunks) = 3
    /\ Len(decoded) = 2
    /\ decoded[1].index = 1
    /\ decoded[2].index = 3
    /\ decoded[1].raw # decoded[2].raw
    /\ t_result.kind = "transcript"

----------------------------------------------------------------------------
StageOrder == <<"transcription", "intent", "resolution">>
Started(stage) == \E j \in 1..Len(stages) : stages[j] = stage
Succeeded(j) == Len(outcomes) >= j /\ outcomes[j].ok
\* caller 1 has made no remote call: no call of make_watsonx_request, no
\* exchange, no POST, the cache as it was
NoRemoteCall ==
    /\ calls[1] = 0
    /\ pc[1] = "idle"
    /\ events[1] = <<>>
    /\ issued = 0
    /\ access_token_cache = ClearedCache

\* C10: the stages of /analyze start and end in the order transcription,
\* intent, resolution; the remote call of the intent stage starts only after
\* the transcription has succeeded and that of the resolution stage only after
\* the intent stage has succeeded; when the transcription fails there is no
\* remote call at all, and when the intent stage fails the resolution call
\* is never started.
C10_StagesInOrder ==
    (apc # "none")
    => /\ Len(stages) <= 3
       /\ \A j \in 1..Len(stages) : stages[j] = StageOrder[j]
       /\ Len(outcomes) <= 3
       /\ \A j \in 1..Len(outcomes) :
            /\ outcomes[j].stage = StageOrder[j]
            /\ j < Len(outcomes) => outcomes[j].ok
       /\ apc \in {"intent", "intent_call"} => Len(outcomes) = 1 /\ Succeeded(1)
       /\ apc \in {"resolution", "resolution_call"} => Len(outcomes) = 2 /\ Succeeded(2)
       /\ Started("intent") => Succeeded(1)
       /\ Started("resolution") => Succeeded(1) /\ Succeeded(2)
       /\ calls[1] = (IF Len(stages) = 0 THEN 0 ELSE Len(stages) - 1)
       /\ ~Started("intent") => NoRemoteCall
       /\ (Len(outcomes) >= 1 /\ ~outcomes[1].ok)
          => /\ apc = "done"
             /\ analyze_result.kind = "HTTPException"
             /\ NoRemoteCall
       /\ (Len(outcomes) = 2 /\ ~outcomes[2].ok)
          => /\ apc = "done"
             /\ analyze_result.kind = "HTTPException"
             /\ ~Started("resolution")
             /\ calls[1] <= 1
       /\ analyze_result.kind = "analysis" => Succeeded(3)

\* the intent call was made, answered 403, and the request ended there
C10_Witness ==
    /\ apc = "done"
    /\ stages = <<"transcription", "intent">>
    /\ Len(outcomes) = 2
    /\ ~outcomes[2].ok
    /\ Posts(1) = 1
    /\ result[1].kind = "RemoteAPIError"
    /\ analyze_result = HTTPException(403, <<"RemoteAPIError">>)

----------------------------------------------------------------------------
\* C11: whenever the last thing a call did was an inference POST answered 401
\* and the call has gone on to the next attempt or has ended, the cache holds
\* no token and expiry 0.
C11_InvalidatedOn401 ==
    \A p \in callers :
       /\ LastIs(p, {"clear"}) => CurrentCache = ClearedCache
       /\ (pc[p] = "done" /\ LastIs(p, {"post"}) /\ LastEvent(p).status = StatusUnauthorized)
          => CurrentCache = ClearedCache

----------------------------------------------------------------------------
\* C12: in the chunking loops the first chunk is not padded and holds
\* min(chunk_samples, len(audio)) samples, every later chunk holds exactly
\* chunk_samples samples, and a chunk is padded exactly when it is short and
\* not the first; an audio of at most 30 s gives one chunk, the whole audio,
\* not padded.
C12_PaddingExceptFirst ==
    /\ (tier \in {"LONG", "VERY_LONG"} /\ spc \in {"loop", "segmented"})
       => \A i \in 1..Len(chunks) :
            LET cut == chunks[i].last - chunks[i].first
            IN  /\ chunks[i].len = (IF i = 1 THEN Min2(chunk_samples, audio_len)
                                             ELSE chunk_samples)
                /\ i = 1 => chunks[i].len = cut
                /\ (chunks[i].len > cut) <=> (cut < chunk_samples /\ i # 1)
                /\ chunks[i].len >= cut
    /\ (tier = "SHORT" /\ spc = "segmented")
       => /\ audio_len <= ShortLimitSeconds * SamplingRate
          /\ chunks = <<Chunk(0, audio_len, audio_len)>>
    /\ (spc = "segmented" /\ audio_len <= ShortLimitSeconds * SamplingRate)
       => tier = "SHORT"

\* a very long audio whose last chunk was cut short and padded
C12_Witness ==
    /\ tier = "VERY_LONG"
    /\ spc = "segmented"
    /\ chunks[1].len = chunk_samples
    /\ chunks[Len(chunks)].last - chunks[Len(chunks)].first < chunk_samples
    /\ chunks[Len(chunks)].len = chunk_samples

----------------------------------------------------------------------------
\* whole seconds and the samples beyond them: duration = Secs + Rest / 16000
Secs(len) == len \div 16000
Rest(len) == len % 16000
AtMostSeconds(len, n) == Secs(len) < n \/ (Secs(len) = n /\ Rest(len) = 0)

\* C13: once the tier is chosen it is SHORT when the duration is at most 30 s,
\* LONG when it is above 30 s and at most 600 s, VERY_LONG above 600 s; the
\* chunking constants are those of the transcriber of that tier; and the tier
\* is chosen once, from no tier, and never changes afterwards.
C13_TierByDuration ==
    /\ [](spc \in {"loop", "segmented"}
          => /\ tier = "SHORT" <=> AtMostSeconds(audio_len, 30)
             /\ tier = "LONG" <=> (~AtMostSeconds(audio_len, 30)
                                   /\ AtMostSeconds(audio_len, 600))
             /\ tier = "VERY_LONG" <=> ~AtMostSeconds(audio_len, 600)
             /\ tier = "SHORT" => Len(chunks) = 1 /\ chunk_samples = 0
             /\ tier = "LONG" => chunk_samples = 30 * 16000
             /\ tier = "VERY_LONG" => chunk_samples = 20 * 16000)
    /\ [][tier' # tier => (tier = "none" /\ spc = "select" /\ spc' # "select")]_vars

\* an audio of exactly 600 s went to the transcriber of the LONG tier
C13_Witness ==
    /\ audio_len = 600 * 16000
    /\ tier = "LONG"
    /\ spc = "segmented"

\* C14: a successful exchange started at time t that reports expires_in leaves
\* expiry = t + expires_in - 300 in the cache; a non-forced get_access_token at
\* a time at or after the cached expiry makes a new exchange and returns its
\* token; a token served from the cache has more than 300 s of its reported
\* lifetime left, so its expires_in was above 300.
C14_ExpiryWithBuffer ==
    \A p \in callers :
        /\ (GotCredential(p) /\ CountIn(AttemptEvents(p), ExchangeTypes) = 1)
           => /\ grant.at = current_time[p]
              /\ CurrentCache = [token |-> fetched[p].token,
                                 expiry |-> grant.at + grant.expires_in - 300]
        /\ (GotCredential(p) /\ ~force_refresh[p] /\ at_entry[p].token # NoToken
              /\ current_time[p] >= at_entry[p].expiry)
           => /\ CountIn(AttemptEvents(p), ExchangeTypes) = 1
              /\ access_token[p] = issued
              /\ access_token[p] # at_entry[p].token
        /\ (GotCredential(p) /\ CountIn(AttemptEvents(p), ExchangeTypes) = 0)
           => /\ access_token[p] = issued
              /\ (grant.at + grant.expires_in) - current_time[p] > 300
              /\ grant.expires_in > 300

\* a second call arrives at exactly the cached expiry of a token whose lifetime
\* was 300 s, and is given a new token
C14_Witness ==
    \E p \in callers :
        /\ GotCredential(p) /\ ~force_refresh[p]
        /\ at_entry[p].token # NoToken
        /\ current_time[p] = at_entry[p].expiry
        /\ access_token[p] = at_entry[p].token + 1

\* C15: the temporary file exists from before preprocessing starts until the
\* finally block, and no temporary file is left once transcribe_audio_file has
\* returned or raised.
C15_TempFileReleased ==
    /\ tpc \in {"preprocess", "routine", "combine", "finally"} => temp_file
    /\ tpc = "done" => ~temp_file

\* how far a call has come: the attempt, then the place within the attempt
Place(p) ==
    CASE pc[p] = "loop" -> 1
      [] pc[p] = "check_token" -> 2
      [] pc[p] = "check_expiry" -> 3
      [] pc[p] = "use_cached" -> 4
      [] pc[p] = "exchange" -> 5
      [] pc[p] = "write_token" -> 6
      [] pc[p] = "write_expiry" -> 7
      [] pc[p] = "post" -> 8
      [] pc[p] \in {"clear_token", "request_exception"} -> 9
      [] pc[p] = "clear_expiry" -> 10
      [] OTHER -> 11
Rank(p) == attempt[p] * 12 + Place(p)
Running(p) == pc[p] \notin {"idle", "done"}
CallStep(p) ==
    \/ LoopHead(p) \/ CheckToken(p) \/ CheckExpiry(p) \/ UseCached(p)
    \/ ExchangeOK(p) \/ ExchangeRaises(p) \/ ExchangeNoToken(p)
    \/ WriteToken(p) \/ WriteExpiry(p) \/ PostResponds(p) \/ PostRaises(p)
    \/ ClearToken(p) \/ ClearExpiry(p) \/ HandleRequestException(p)

\* C16: whatever the outcomes of the attempts, a call of make_watsonx_request
\* uses attempts 0..max_retries only, makes at most max_retries + 1 inference
\* POSTs and at most max_retries + 1 credential exchanges, and terminates: while
\* it runs it can always take a step, and every step moves it forward in the
\* order (attempt, place), which is bounded.
C16_BoundedAttempts ==
    /\ [](\A p \in callers :
            pc[p] # "idle" =>
               /\ attempt[p] \in 0..max_retries[p]
               /\ Posts(p) <= attempt[p] + 1
               /\ Exchanges(p) <= attempt[p] + 1
               /\ Posts(p) <= max_retries[p] + 1
               /\ Exchanges(p) <= max_retries[p] + 1
               /\ Running(p) => ENABLED CallStep(p))
    /\ [][\A p \in callers :
            (Running(p) /\ (pc'[p] # pc[p] \/ attempt'[p] # attempt[p]))
               => Rank(p)' > Rank(p)]_vars

\* with max_retries = 2 all three attempts exchanged a credential and posted
C16_Witness ==
    \E p \in callers :
        /\ pc[p] = "done" /\ max_retries[p] = 2
        /\ Posts(p) = 3 /\ Exchanges(p) = 3
        /\ PostOutcomes(p) = <<StatusUnauthorized, 0, 0>>

\* C17: clean_combined_transcription returns the empty string for an empty
\* sequence, and for a sequence of one transcript returns that transcript
\* unchanged, outer and inner spaces included.
C17_EmptyAndSingleton ==
    rpc = "done" =>
       /\ Len(transcriptions) = 0 => returned = <<>>
       /\ Len(transcriptions) = 1 => returned = transcriptions[1]

\* a single transcript with spaces at both ends has come back as it went in
C17_Witness ==
    /\ rpc = "done"
    /\ transcriptions = <<<<Space, "a", Space, Space, "b", Space>>>>
    /\ returned = <<Space, "a", Space, Space, "b", Space>>

\* C18: an upload above 100 * 1024 * 1024 bytes, once read, makes
\* transcribe_audio_file raise the 413 "File too large" error as it is, with no
\* model loaded, no temporary file and nothing decoded; an upload of exactly
\* that size is not rejected and goes on to the model.
C18_TooLargeRejectedFirst ==
    /\ [](content_size > 100 * 1024 * 1024 =>
            /\ tpc \in {"read", "done"}
            /\ ~whisper_model_cache /\ ~temp_file /\ decoded = <<>>
            /\ spc = "idle" /\ rpc = "idle"
            /\ (tpc = "done" /\ t_result # CriticalError("read"))
               => t_result = HTTPException(413, <<"File too large">>))
    /\ [](t_result.status = 413 => content_size > 100 * 1024 * 1024)
    /\ [][(tpc = "read" /\ content_size = 100 * 1024 * 1024
              /\ t_result' # CriticalError("read"))
           => (tpc' = "load" /\ t_result' = Pending)]_vars

C18_Witness ==
    /\ content_size = 100 * 1024 * 1024 + 1
    /\ tpc = "done"
    /\ t_result = HTTPException(413, <<"File too large">>)

\* the event that ended the attempt before the running one
PrevEnd(p) == events[p][AttemptStart(p) - 1]
InAttempt(p) == pc[p] \notin {"idle", "loop"}

\* C19: attempt 0 fetches the credential without force and every later attempt
\* with force; an attempt that follows a 401 finds the cache cleared (no token,
\* expiry 0), an attempt that follows a network exception finds the cache as
\* the previous attempt left it, the token still in it.
C19_ForcedAfterFailure ==
    \A p \in callers :
        InAttempt(p) =>
           /\ attempt[p] = 0 => ~force_refresh[p]
           /\ attempt[p] >= 1 =>
                 /\ force_refresh[p]
                 /\ PrevEnd(p).type \in {"clear", "sleep"}
                 /\ PrevEnd(p).type = "clear" => EntryCache(p) = ClearedCache
                 /\ PrevEnd(p).type = "sleep" =>
                       /\ at_entry[p].token # NoToken
                       /\ at_entry[p].token = at_entry[p].issued

\* attempt 1 follows a network exception and starts with a token in the cache
C19_Witness ==
    \E p \in callers :
        /\ InAttempt(p) /\ attempt[p] = 1 /\ force_refresh[p]
        /\ PrevEnd(p).type = "sleep"
        /\ at_entry[p].token # NoToken

\* C19 as claimed: every attempt after the first starts with the cache cleared.
C19_AsClaimed ==
    \A p \in callers :
        InAttempt(p) =>
           /\ attempt[p] = 0 => ~force_refresh[p]
           /\ attempt[p] >= 1 => (force_refresh[p] /\ EntryCache(p) = ClearedCache)

\* the category the claim expects for an intent
FirstTokenOrOther(text) ==
    IF Split(text) # <<>> /\ Split(text)[1] \in ResolutionTemplates
    THEN Split(text)[1]
    ELSE <<"OTHER">>

\* C20: once generate_resolution_endpoint has accepted its body (configuration
\* complete, content and intent not empty), the category is the first token of
\* the intent when that is one of the ten labels and OTHER otherwise, it is
\* always one of the labels, and the parsing has raised nothing.
C20_CategoryFailsClosed ==
    (AllConfigured /\ transcription # <<>> /\ intent # <<>> /\ apc # "resolution")
    => /\ intent_category \in ResolutionTemplates
       /\ intent_category = FirstTokenOrOther(intent)
       /\ analyze_result # HTTPException(500, <<"Resolution generation failed">>)

C22_ReturnsBodyOrFails ==
    \A p \in callers :
        /\ pc[p] = "loop" => attempt[p] <= max_retries[p]
        /\ pc[p] = "done" =>
              /\ result[p] # ReturnedNone
              /\ result[p].kind \in {"returned", "CredentialAcquisitionError",
                                     "RemoteAPIError", "RemoteUnavailableError"}
              /\ result[p].kind = "returned" =>
                    /\ LastIs(p, {"post"}) /\ LastEvent(p).status = StatusOK
                    /\ response[p].status = StatusOK
                    /\ result[p] = Returned(response[p].body)
                    /\ ~Truthy(result[p].body) <=> result[p].body = "{}"

\* a 200 with the body {} on the last attempt: returned, and falsy for the caller
C22_Witness ==
    \E p \in callers :
        /\ pc[p] = "done" /\ attempt[p] = max_retries[p] /\ attempt[p] > 0
        /\ result[p] = Returned("{}")
        /\ ~Truthy(result[p].body)

\* C22 as claimed: no call returns None, and no call returns a result for which
\* the callers take their no-result branch.
C22_AsClaimed ==
    \A p \in callers :
        pc[p] = "done" =>
           /\ result[p] # ReturnedNone
           /\ result[p].kind = "returned" => Truthy(result[p].body)

\* the words of the first n transcripts, and the overlaps the reference fold
\* finds between them
RECURSIVE SumWords(_, _)
SumWords(ts, n) == IF n = 0 THEN 0 ELSE SumWords(ts, n - 1) + Len(Split(ts[n]))
RECURSIVE SumOverlaps(_, _)
SumOverlaps(ts, n) ==
    IF n <= 1 THEN 0
    ELSE SumOverlaps(ts, n - 1) + LargestOverlap(RefWords(ts, n - 1), Split(ts[n]))
StartsWith(words, prefix) ==
    Len(words) >= Len(prefix) /\ FirstWords(words, Len(prefix)) = prefix
EndsWith(words, suffix) ==
    Len(words) >= Len(suffix) /\ LastWords(words, Len(suffix)) = suffix

\* C23: in clean_combined_transcription no word is dropped: after every pass
\* of the loop the words of combined begin with the words of the first
\* transcript and end with the words of the transcript just merged, each pass
\* adds |next words| - k words where k is the largest overlap (0 when there is
\* none), and the words returned number the sum of the words of the inputs
\* minus the sum of the overlaps.
C23_NoWordDropped ==
    /\ [](rpc = "loop" =>
            /\ StartsWith(Split(combined), Split(transcriptions[1]))
            /\ EndsWith(Split(combined), Split(transcriptions[idx - 1]))
            /\ Len(Split(combined)) =
                  SumWords(transcriptions, idx - 1) - SumOverlaps(transcriptions, idx - 1))
    /\ []((rpc = "done" /\ Len(transcriptions) >= 2) =>
            /\ StartsWith(Split(returned), Split(transcriptions[1]))
            /\ EndsWith(Split(returned), Split(transcriptions[Len(transcriptions)]))
            /\ Len(Split(returned)) =
                  SumWords(transcriptions, Len(transcriptions))
                    - SumOverlaps(transcriptions, Len(transcriptions)))
    /\ [][(rpc = "loop" /\ idx' = idx + 1) =>
             Len(Split(combined')) =
                Len(Split(combined)) + Len(Split(transcriptions[idx]))
                  - LargestOverlap(Split(combined), Split(transcriptions[idx]))]_vars

\* three transcripts, an overlap of three words and then one of one word
C23_Witness ==
    /\ rpc = "done"
    /\ Len(transcriptions) = 3
    /\ SumOverlaps(transcriptions, 2) = 3
    /\ SumOverlaps(transcriptions, 3) = 4
    /\ Len(Split(returned)) = SumWords(transcriptions, 3) - 4

\* C24: the chunking loop of the LONG and VERY_LONG tiers terminates: while it
\* runs a pass is always possible and start is below len(audio); a pass that
\* does not stop moves start up by chunk_samples - overlap_samples > 0, so
\* start is that step times the number of chunks; the loop stops with the
\* first chunk whose end reaches len(audio), and that last chunk has at least
\* one sample the chunk before it did not have.
C24_ChunkingTerminates ==
    /\ [](spc = "loop" =>
            /\ ENABLED ChunkingPass
            /\ chunk_samples - overlap_samples > 0
            /\ start = Len(chunks) * (chunk_samples - overlap_samples)
            /\ start < audio_len
            /\ \A i \in 1..Len(chunks) : chunks[i].last < audio_len)
    /\ []((spc = "segmented" /\ tier \in {"LONG", "VERY_LONG"}) =>
            /\ Len(chunks) >= 2
            /\ chunks[Len(chunks)].last = audio_len
            /\ \A i \in 1..(Len(chunks) - 1) : chunks[i].last < audio_len
            /\ chunks[Len(chunks)].last - chunks[Len(chunks) - 1].last >= 1)
    /\ [][spc = "loop" =>
             /\ Len(chunks') = Len(chunks) + 1
             /\ \/ /\ spc' = "loop"
                   /\ start' = start + chunk_samples - overlap_samples
                   /\ start' > start
                   /\ chunks'[Len(chunks')].last < audio_len
                \/ /\ spc' = "segmented"
                   /\ chunks'[Len(chunks')].last = audio_len]_vars

\* 58 s and one sample: the third chunk of the LONG tier carries one new sample
C24_Witness ==
    /\ tier = "LONG"
    /\ spc = "segmented"
    /\ Len(chunks) = 3
    /\ chunks[3].first = chunks[2].last - 32000
    /\ chunks[3].last - chunks[2].last = 1

\* a string that is its own words joined by single spaces: not empty, no space
\* at either end, no two spaces in a row
SingleSpaced(s) == s # <<>> /\ s = JoinSpace(Split(s))

\* C25: for two or more transcripts that are trimmed, not empty and
\* single-spaced, clean_combined_transcription returns its words joined by
\* single spaces: no space at either end and no two spaces in a row.
C25_SingleSpacedResult ==
    (/\ rpc = "done"
     /\ Len(transcriptions) >= 2
     /\ \A i \in 1..Len(transcriptions) : SingleSpaced(transcriptions[i]))
    => /\ returned = JoinSpace(Split(returned))
       /\ returned = Strip(returned)

====
